---- MODULE Spec2Model ----
(***************************************************************************)
(* Model of the template preview engine of                                 *)
(* src/frontend/src/lib/templatePreview.ts: tokenize -> Parser.parse ->    *)
(* renderNodes, with the evaluator and the modifier pipeline.              *)
(*                                                                         *)
(* A JavaScript string is a sequence of one-character strings.  A context  *)
(* value is a tagged record: Null, Bool(b), Num(n), Str(s), Arr(a),        *)
(* Obj(o) (o a function from keys to values) and Fn(name) for the          *)
(* inherited prototype members that the `in` operator also finds.          *)
(***************************************************************************)
EXTENDS Integers, Sequences, FiniteSets, TLC

VARIABLES template, context, pc, position, tokens, ast, output, pass, firstOutput

vars == <<template, context, pc, position, tokens, ast, output, pass, firstOutput>>

(***************************************************************************)
(* Characters and the string primitives of the host language.              *)
(***************************************************************************)
Lowers == <<"a","b","c","d","e","f","g","h","i","j","k","l","m",
            "n","o","p","q","r","s","t","u","v","w","x","y","z">>
Uppers == <<"A","B","C","D","E","F","G","H","I","J","K","L","M",
            "N","O","P","Q","R","S","T","U","V","W","X","Y","Z">>
Digits == <<"0","1","2","3","4","5","6","7","8","9">>

LowerSet == {Lowers[i] : i \in 1..26}
UpperSet == {Uppers[i] : i \in 1..26}
DigitSet == {Digits[i] : i \in 1..10}

\* \s of the regular expressions and of String.prototype.trim
Whitespace == {" ", "\t", "\n", "\r"}
\* the characters the regular-expression dot does not match
LineTerminators == {"\n", "\r"}
\* \w of the regular expressions
WordChars == LowerSet \cup UpperSet \cup DigitSet \cup {"_"}
\* [a-zA-Z_]
IdentStart == LowerSet \cup UpperSet \cup {"_"}
\* [a-zA-Z0-9_.]
PathChars == WordChars \cup {"."}

SetMin(S) == CHOOSE m \in S : \A k \in S : m <= k
SetMax(S) == CHOOSE m \in S : \A k \in S : m >= k

\* the least member of S, or the default when S is empty
minOr(S, default) == IF S = {} THEN default ELSE SetMin(S)

IndexIn(seq, c) == CHOOSE i \in 1..Len(seq) : seq[i] = c

toLowerChar(c) == IF c \in UpperSet THEN Lowers[IndexIn(Uppers, c)] ELSE c
toUpperChar(c) == IF c \in LowerSet THEN Uppers[IndexIn(Lowers, c)] ELSE c

toLowerCase(s) == [i \in 1..Len(s) |-> toLowerChar(s[i])]
toUpperCase(s) == [i \in 1..Len(s) |-> toUpperChar(s[i])]

\* String.prototype.trim
trim(s) ==
  LET keep == {i \in 1..Len(s) : s[i] \notin Whitespace}
  IN IF keep = {} THEN <<>> ELSE SubSeq(s, SetMin(keep), SetMax(keep))

\* s.slice(from) with a 0-based offset
sliceFrom(s, from) == SubSeq(s, from + 1, Len(s))

\* pat occurs in s at the 1-based index i
OccursAt(s, i, pat) ==
  /\ i >= 1
  /\ i + Len(pat) - 1 <= Len(s)
  /\ \A k \in 1..Len(pat) : s[i + k - 1] = pat[k]

\* the same, ignoring case (the /i flag)
OccursAtNoCase(s, i, pat) ==
  /\ i >= 1
  /\ i + Len(pat) - 1 <= Len(s)
  /\ \A k \in 1..Len(pat) : toLowerChar(s[i + k - 1]) = toLowerChar(pat[k])

startsWith(s, pat) == OccursAt(s, 1, pat)
endsWith(s, pat) == Len(pat) <= Len(s) /\ OccursAt(s, Len(s) - Len(pat) + 1, pat)

\* String.prototype.indexOf as a 1-based index, 0 when pat does not occur
indexOf(s, pat) == minOr({i \in 1..(Len(s) + 1) : OccursAt(s, i, pat)}, 0)

includes(s, pat) == indexOf(s, pat) # 0

RECURSIVE Concat(_)
\* the concatenation of a sequence of strings
Concat(ss) == IF ss = <<>> THEN <<>> ELSE Head(ss) \o Concat(Tail(ss))

RECURSIVE JoinWith(_, _)
\* Array.prototype.join on an array of strings
JoinWith(ss, sep) ==
  IF ss = <<>> THEN <<>>
  ELSE IF Len(ss) = 1 THEN ss[1]
  ELSE ss[1] \o sep \o JoinWith(Tail(ss), sep)

RECURSIVE SplitOn(_, _)
\* the split at the first separator, found at index i (0: there is none)
splitAt(s, c, i) ==
  IF i = 0 THEN <<s>>
  ELSE <<SubSeq(s, 1, i - 1)>> \o SplitOn(SubSeq(s, i + 1, Len(s)), c)

\* String.prototype.split on a one-character separator
SplitOn(s, c) == splitAt(s, c, minOr({i \in 1..Len(s) : s[i] = c}, 0))

RECURSIVE NatToString(_)
NatToString(n) ==
  IF n < 10 THEN <<Digits[n + 1]>>
  ELSE NatToString(n \div 10) \o <<Digits[(n % 10) + 1]>>

RECURSIVE StringToNat(_)
\* the value of a run of decimal digits
StringToNat(s) ==
  IF s = <<>> THEN 0
  ELSE 10 * StringToNat(SubSeq(s, 1, Len(s) - 1)) + (IndexIn(Digits, s[Len(s)]) - 1)

IsDigits(s) == s # <<>> /\ \A i \in 1..Len(s) : s[i] \in DigitSet

(***************************************************************************)
(* FORBIDDEN_PATHS                                                         *)
(***************************************************************************)
FORBIDDEN_PATHS == {
  <<"_","_","c","l","a","s","s","_","_">>,
  <<"_","_","b","a","s","e","s","_","_">>,
  <<"_","_","m","r","o","_","_">>,
  <<"_","_","s","u","b","c","l","a","s","s","e","s","_","_">>,
  <<"_","_","i","n","i","t","_","_">>,
  <<"_","_","n","e","w","_","_">>,
  <<"_","_","d","i","c","t","_","_">>,
  <<"_","_","s","l","o","t","s","_","_">>,
  <<"_","_","g","e","t","a","t","t","r","_","_">>,
  <<"_","_","s","e","t","a","t","t","r","_","_">>,
  <<"_","_","d","e","l","a","t","t","r","_","_">>,
  <<"_","_","g","e","t","a","t","t","r","i","b","u","t","e","_","_">>,
  <<"_","_","g","l","o","b","a","l","s","_","_">>,
  <<"_","_","c","o","d","e","_","_">>,
  <<"_","_","b","u","i","l","t","i","n","s","_","_">>,
  <<"_","_","i","m","p","o","r","t","_","_">>,
  <<"_","_","c","a","l","l","_","_">>,
  <<"_","_","r","e","d","u","c","e","_","_">>,
  <<"_","_","m","o","d","u","l","e","_","_">>,
  <<"_","_","w","e","a","k","r","e","f","_","_">>,
  <<"_","_","a","n","n","o","t","a","t","i","o","n","s","_","_">>,
  <<"_","s","a","_","i","n","s","t","a","n","c","e","_","s","t","a","t","e">> }

(***************************************************************************)
(* smartSplit                                                              *)
(***************************************************************************)
RECURSIVE smartSplitFromUnfloored(_, _, _, _, _, _, _, _)
\* the loop with `depth - 1` in place of `Math.max(0, depth - 1)`
smartSplitFromUnfloored(input, delimiter, i, parts, current, depth, inSingle, inDouble) ==
  IF i > Len(input)
  THEN IF current # <<>> THEN Append(parts, current) ELSE parts
  ELSE LET char == input[i] IN
    IF char = "'" /\ ~inDouble
    THEN smartSplitFromUnfloored(input, delimiter, i + 1, parts, Append(current, char),
                                 depth, ~inSingle, inDouble)
    ELSE IF char = "\"" /\ ~inSingle
    THEN smartSplitFromUnfloored(input, delimiter, i + 1, parts, Append(current, char),
                                 depth, inSingle, ~inDouble)
    ELSE IF ~inSingle /\ ~inDouble
    THEN LET d1 == IF char = "(" THEN depth + 1 ELSE depth
             d2 == IF char = ")" THEN d1 - 1 ELSE d1
         IN IF char = delimiter /\ d2 = 0
            THEN smartSplitFromUnfloored(input, delimiter, i + 1, Append(parts, current),
                                         <<>>, d2, inSingle, inDouble)
            ELSE smartSplitFromUnfloored(input, delimiter, i + 1, parts,
                                         Append(current, char), d2, inSingle, inDouble)
    ELSE smartSplitFromUnfloored(input, delimiter, i + 1, parts, Append(current, char),
                                 depth, inSingle, inDouble)

RECURSIVE smartSplitFrom(_, _, _, _, _, _, _, _)
\* the loop of smartSplit from the i-th character on, and the final push
smartSplitFrom(input, delimiter, i, parts, current, depth, inSingle, inDouble) ==
  IF i > Len(input)
  THEN IF current # <<>> THEN Append(parts, current) ELSE parts
  ELSE LET char == input[i] IN
    IF char = "'" /\ ~inDouble
    THEN smartSplitFrom(input, delimiter, i + 1, parts, Append(current, char),
                        depth, ~inSingle, inDouble)
    ELSE IF char = "\"" /\ ~inSingle
    THEN smartSplitFrom(input, delimiter, i + 1, parts, Append(current, char),
                        depth, inSingle, ~inDouble)
    ELSE IF ~inSingle /\ ~inDouble
    THEN LET d1 == IF char = "(" THEN depth + 1 ELSE depth
             d2 == IF char = ")" THEN (IF d1 - 1 > 0 THEN d1 - 1 ELSE 0) ELSE d1
         IN IF char = delimiter /\ d2 = 0
            THEN smartSplitFrom(input, delimiter, i + 1, Append(parts, current), <<>>,
                                d2, inSingle, inDouble)
            ELSE smartSplitFrom(input, delimiter, i + 1, parts, Append(current, char),
                                d2, inSingle, inDouble)
    ELSE smartSplitFrom(input, delimiter, i + 1, parts, Append(current, char),
                        depth, inSingle, inDouble)

smartSplit(input, delimiter) ==
  smartSplitFrom(input, delimiter, 1, <<>>, <<>>, 0, FALSE, FALSE)

(***************************************************************************)
(* parseVariable                                                           *)
(***************************************************************************)
\* value.match(/^([a-zA-Z_]\w*)\((.*)\)$/): 0 when there is no match, else the
\* index of the opening parenthesis
\* the same, given the index `open` of the first character that is not a word
\* character (0 when there is none)
modifierArgOpenAt(value, open) ==
  IF /\ Len(value) >= 3
     /\ value[1] \in IdentStart
     /\ open >= 2
     /\ value[open] = "("
     /\ value[Len(value)] = ")"
     /\ \A k \in (open + 1)..(Len(value) - 1) : value[k] \notin LineTerminators
  THEN open ELSE 0

ModifierArgOpen(value) ==
  modifierArgOpenAt(value, minOr({i \in 1..Len(value) : value[i] \notin WordChars}, 0))

\* the entry for the trimmed modifier, given the index of its opening parenthesis
modifierEntry(value, open) ==
  IF open # 0
  THEN [name |-> SubSeq(value, 1, open - 1), hasArg |-> TRUE,
        arg |-> SubSeq(value, open + 1, Len(value) - 1)]
  ELSE [name |-> value, hasArg |-> FALSE, arg |-> <<>>]

\* one entry of `modifiers`: [name, arg] with arg a string or null
parseModifier(modifier) == modifierEntry(trim(modifier), ModifierArgOpen(trim(modifier)))

\* the path and the modifiers of the split content
variableOfParts(parts) ==
  [path |-> IF parts = <<>> THEN <<>> ELSE trim(parts[1]),
   modifiers |-> IF parts = <<>> THEN <<>>
                 ELSE [i \in 1..(Len(parts) - 1) |-> parseModifier(parts[i + 1])]]

parseVariable(content) == variableOfParts(smartSplit(content, "|"))

(***************************************************************************)
(* The token patterns.  A match is [ok, length, group].                    *)
(***************************************************************************)
NoMatch == [ok |-> FALSE, length |-> 0, group |-> <<>>]

\* the lazy (.+?)\} that starts at index c0: the least e > c0 with input[e] = "}"
\* and no line terminator in c0..e-1; 0 when there is none
FirstClose(input, c0) ==
  minOr({e \in (c0 + 1)..Len(input) :
           /\ input[e] = "}"
           /\ \A k \in c0..(e - 1) : input[k] \notin LineTerminators}, 0)

\* /^\{kw\s+(.+?)\}/i for kw = if or elif: \s+ is greedy and gives characters
\* back until the rest matches
\* the match whose group runs from index c0 to just before the brace at e
keywordMatch(input, c0, e) == [ok |-> TRUE, length |-> e, group |-> SubSeq(input, c0, e - 1)]

\* the match for the keyword that ends at index n, given the set ws of the
\* lengths \s+ can take with the rest still matching: the greatest is taken
keywordAfter(input, n, ws) ==
  IF ws = {} THEN NoMatch
  ELSE keywordMatch(input, n + SetMax(ws) + 1, FirstClose(input, n + SetMax(ws) + 1))

\* the same, given the index wsEnd where the whitespace after the keyword ends
keywordSpaces(input, n, wsEnd) ==
  keywordAfter(input, n, {w \in 1..(wsEnd - n) : FirstClose(input, n + w + 1) # 0})

KeywordPattern(input, kw) ==
  IF /\ Len(input) >= Len(kw) + 1
     /\ input[1] = "{"
     /\ OccursAtNoCase(input, 2, kw)
  THEN keywordSpaces(input, Len(kw) + 1,
                     minOr({i \in (Len(kw) + 2)..Len(input) : input[i] \notin Whitespace},
                           Len(input) + 1) - 1)
  ELSE NoMatch

IF_PATTERN(input) == KeywordPattern(input, <<"i","f">>)
ELIF_PATTERN(input) == KeywordPattern(input, <<"e","l","i","f">>)

ELSE_PATTERN(input) ==
  IF OccursAtNoCase(input, 1, <<"{","e","l","s","e","}">>)
  THEN [ok |-> TRUE, length |-> 6, group |-> <<>>] ELSE NoMatch

ENDIF_PATTERN(input) ==
  IF OccursAtNoCase(input, 1, <<"{","/","i","f","}">>)
  THEN [ok |-> TRUE, length |-> 5, group |-> <<>>] ELSE NoMatch

\* /^\{([a-zA-Z_][a-zA-Z0-9_.]*(?:\|[^}]+)?)\}/
\* the match, given the index `stop` where the path ends and the index `close`
\* of the first closing brace after it (0 when there is none)
variableMatch(input, stop, close) ==
  IF Len(input) >= 3 /\ input[1] = "{" /\ input[2] \in IdentStart /\ stop <= Len(input)
  THEN IF input[stop] = "}"
       THEN [ok |-> TRUE, length |-> stop, group |-> SubSeq(input, 2, stop - 1)]
       ELSE IF input[stop] = "|" /\ close > stop + 1
       THEN [ok |-> TRUE, length |-> close, group |-> SubSeq(input, 2, close - 1)]
       ELSE NoMatch
  ELSE NoMatch

\* the same, given the index where the path ends
variablePath(input, stop) ==
  variableMatch(input, stop, minOr({i \in (stop + 1)..Len(input) : input[i] = "}"}, 0))

\* the pattern with any content between the braces: /^\{([^}]*)\}/
VARIABLE_PATTERN_AnyContent(input) ==
  IF input # <<>> /\ input[1] = "{" /\ \E e \in 2..Len(input) : input[e] = "}"
  THEN [ok |-> TRUE, length |-> minOr({e \in 2..Len(input) : input[e] = "}"}, 0),
        group |-> SubSeq(input, 2, minOr({e \in 2..Len(input) : input[e] = "}"}, 0) - 1)]
  ELSE NoMatch

VARIABLE_PATTERN(input) ==
  variablePath(input, minOr({i \in 3..Len(input) : input[i] \notin PathChars}, Len(input) + 1))

(***************************************************************************)
(* tokenize: one iteration of the scan loop                                *)
(***************************************************************************)
TextToken(text) == [type |-> "text", text |-> text]
VariableToken(path, modifiers) == [type |-> "variable", path |-> path, modifiers |-> modifiers]
IfToken(condition) == [type |-> "if", condition |-> condition]
ElifToken(condition) == [type |-> "elif", condition |-> condition]
ElseToken == [type |-> "else"]
EndifToken == [type |-> "endif"]

\* the offset after a brace that opens no token
afterBraceStuck(pos) == pos

\* the offset after a brace that opens no token, one character too far
afterBraceSkip(pos) == pos + 2

afterBrace(pos) == pos + 1

\* template.slice(position, end) cut one character short
textRunShort(tpl, pos, end) == SubSeq(tpl, pos + 1, end - 1)

\* template.slice(position, end)
textRun(tpl, pos, end) == SubSeq(tpl, pos + 1, end)

\* the end of the text run that starts at the 0-based offset pos
textRunEnd(tpl, pos) ==
  minOr({e \in (pos + 1)..Len(tpl) : tpl[e] = "{"}, Len(tpl) + 1) - 1

\* the chain of tests of one iteration, given the match of each pattern
scanMatches(tpl, pos, ifMatch, elifMatch, elseMatch, endifMatch, varMatch) ==
  IF ifMatch.ok
  THEN [token |-> IfToken(trim(ifMatch.group)), position |-> pos + ifMatch.length]
  ELSE IF elifMatch.ok
  THEN [token |-> ElifToken(trim(elifMatch.group)), position |-> pos + elifMatch.length]
  ELSE IF elseMatch.ok
  THEN [token |-> ElseToken, position |-> pos + elseMatch.length]
  ELSE IF endifMatch.ok
  THEN [token |-> EndifToken, position |-> pos + endifMatch.length]
  ELSE IF varMatch.ok
  THEN [token |-> VariableToken(parseVariable(varMatch.group).path,
                                parseVariable(varMatch.group).modifiers),
        position |-> pos + varMatch.length]
  ELSE IF tpl[pos + 1] = "{"
  THEN [token |-> TextToken(<<"{">>), position |-> afterBrace(pos)]
  ELSE [token |-> TextToken(textRun(tpl, pos, textRunEnd(tpl, pos))),
        position |-> textRunEnd(tpl, pos)]

\* the token pushed by the iteration at offset pos and the new offset
scanStep(tpl, pos) ==
  scanMatches(tpl, pos,
              IF_PATTERN(sliceFrom(tpl, pos)), ELIF_PATTERN(sliceFrom(tpl, pos)),
              ELSE_PATTERN(sliceFrom(tpl, pos)), ENDIF_PATTERN(sliceFrom(tpl, pos)),
              VARIABLE_PATTERN(sliceFrom(tpl, pos)))

RECURSIVE tokenizeFrom(_, _)
\* the tokens pushed from offset pos to the end of the template
tokenizeFrom(tpl, pos) ==
  IF pos >= Len(tpl) THEN <<>>
  ELSE <<scanStep(tpl, pos).token>> \o tokenizeFrom(tpl, scanStep(tpl, pos).position)

tokenize(tpl) == tokenizeFrom(tpl, 0)

(***************************************************************************)
(* Parser                                                                  *)
(***************************************************************************)
TextNode(text) == [type |-> "text", text |-> text]
VariableNode(path, modifiers) == [type |-> "variable", path |-> path, modifiers |-> modifiers]
IfNode(condition, trueBranch, elifBranches, falseBranch) ==
  [type |-> "if", condition |-> condition, trueBranch |-> trueBranch,
   elifBranches |-> elifBranches, falseBranch |-> falseBranch]

\* top-level options under which a stray endif ends the block
NoStopsButEndIf == [stopAtElif |-> FALSE, stopAtElse |-> FALSE, stopAtEndIf |-> TRUE]

\* options of an else-body that ends at every control token
ElseStopsAll == [stopAtElif |-> TRUE, stopAtElse |-> TRUE, stopAtEndIf |-> TRUE]

\* the options of parseBlock
NoStops == [stopAtElif |-> FALSE, stopAtElse |-> FALSE, stopAtEndIf |-> FALSE]
BranchStops == [stopAtElif |-> TRUE, stopAtElse |-> TRUE, stopAtEndIf |-> TRUE]
ElseStops == [stopAtElif |-> FALSE, stopAtElse |-> FALSE, stopAtEndIf |-> TRUE]

\* a block that ends at every control token, whatever its options
stopsBlockAlways(token, options) == token.type \in {"elif", "else", "endif"}

\* the three `break` tests at the end of the loop body
stopsBlock(token, options) ==
  \/ token.type = "elif" /\ options.stopAtElif
  \/ token.type = "else" /\ options.stopAtElse
  \/ token.type = "endif" /\ options.stopAtEndIf

\* is the token at the 0-based index of the given type
tokenIs(toks, index, type) == index < Len(toks) /\ toks[index + 1].type = type

\* the closing endif token left in place
consumeEndifNever(toks, index) == index

\* the optional consumption of the closing endif token
consumeEndif(toks, index) == IF tokenIs(toks, index, "endif") THEN index + 1 ELSE index

\* a conditional is kept only when its endif was found
pushConditionalIfClosed(node, closed) == IF closed THEN <<node>> ELSE <<>>

\* the nodes pushed for a conditional; `closed` tells whether its endif was found
pushConditional(node, closed) == <<node>>

RECURSIVE parseBlockFrom(_, _, _, _)
RECURSIVE parseElifs(_, _, _)

\* the loop over the elif tokens of one conditional
parseElifs(toks, index, elifBranches) ==
  IF tokenIs(toks, index, "elif")
  THEN LET body == parseBlockFrom(toks, index + 1, BranchStops, <<>>)
       IN parseElifs(toks, body.index,
                     Append(elifBranches,
                            [condition |-> toks[index + 1].condition, body |-> body.nodes]))
  ELSE [elifBranches |-> elifBranches, index |-> index]

\* the loop of parseBlock from the given index on, with the nodes pushed so far
parseBlockFrom(toks, index, options, nodes) ==
  IF index >= Len(toks) THEN [nodes |-> nodes, index |-> index]
  ELSE LET token == toks[index + 1] IN
    IF token.type = "text"
    THEN parseBlockFrom(toks, index + 1, options, Append(nodes, TextNode(token.text)))
    ELSE IF token.type = "variable"
    THEN parseBlockFrom(toks, index + 1, options,
                        Append(nodes, VariableNode(token.path, token.modifiers)))
    ELSE IF token.type = "if"
    THEN LET trueBranch == parseBlockFrom(toks, index + 1, BranchStops, <<>>)
             elifs == parseElifs(toks, trueBranch.index, <<>>)
             falseBranch == IF tokenIs(toks, elifs.index, "else")
                            THEN parseBlockFrom(toks, elifs.index + 1, ElseStops, <<>>)
                            ELSE [nodes |-> <<>>, index |-> elifs.index]
             after == consumeEndif(toks, falseBranch.index)
             node == IfNode(token.condition, trueBranch.nodes, elifs.elifBranches,
                            falseBranch.nodes)
         IN parseBlockFrom(toks, after, options,
                           nodes \o pushConditional(node, after # falseBranch.index))
    ELSE IF stopsBlock(token, options)
    THEN [nodes |-> nodes, index |-> index]
    ELSE parseBlockFrom(toks, index + 1, options, nodes)

parseBlock(toks, index, options) == parseBlockFrom(toks, index, options, <<>>)

\* Parser.parse: the nodes and the final token index
parse(toks) == parseBlock(toks, 0, NoStops)

(***************************************************************************)
(* Values                                                                  *)
(***************************************************************************)
Null == [t |-> "null"]
NaN == [t |-> "nan"]
Bool(b) == [t |-> "bool", b |-> b]
Str(s) == [t |-> "str", s |-> s]
Arr(a) == [t |-> "arr", a |-> a]
Obj(o) == [t |-> "obj", o |-> o]
Fn(name) == [t |-> "fn", name |-> name]
\* a number is (-1)^neg * (i + 0.f), f the fraction digits without trailing zeros
Number3(neg, i, f) == [t |-> "num", neg |-> neg, i |-> i, f |-> f]
Num(n) == Number3(n < 0, IF n < 0 THEN 0 - n ELSE n, <<>>)
Zero == Num(0)

RECURSIVE stripTrailingZeros(_)
stripTrailingZeros(f) ==
  IF f # <<>> /\ f[Len(f)] = "0" THEN stripTrailingZeros(SubSeq(f, 1, Len(f) - 1)) ELSE f

\* the number written as [-]digits[.digits]
\* zero has no sign
numberFromParts(neg, intDigits, fracDigits) ==
  Number3(neg /\ (StringToNat(intDigits) # 0 \/ stripTrailingZeros(fracDigits) # <<>>),
          StringToNat(intDigits), stripTrailingZeros(fracDigits))

\* the digits before and after the dot at index `dot` (0: there is no dot)
digitsBefore(body, dot) == IF dot = 0 THEN body ELSE SubSeq(body, 1, dot - 1)
digitsAfter(body, dot) == IF dot = 0 THEN <<>> ELSE SubSeq(body, dot + 1, Len(body))

\* \d+(\.\d+)? on the numeral without its sign
isNumeralBody(body, dot) ==
  IsDigits(digitsBefore(body, dot)) /\ (dot = 0 \/ IsDigits(digitsAfter(body, dot)))

\* the numeral without its minus sign
unsignedNumeral(s) == IF s # <<>> /\ s[1] = "-" THEN Tail(s) ELSE s

\* /^-?\d+(\.\d+)?$/
IsNumeral(s) == isNumeralBody(unsignedNumeral(s), indexOf(unsignedNumeral(s), <<".">>))

parseNumeralBody(neg, body, dot) ==
  numberFromParts(neg, digitsBefore(body, dot), digitsAfter(body, dot))

\* Number.parseInt / Number.parseFloat of a numeral
parseNumeral(s) ==
  parseNumeralBody(s[1] = "-", unsignedNumeral(s), indexOf(unsignedNumeral(s), <<".">>))

RECURSIVE String(_)
\* String(value) of the host language
String(value) ==
  IF value.t = "null" THEN <<"n","u","l","l">>
  ELSE IF value.t = "nan" THEN <<"N","a","N">>
  ELSE IF value.t = "bool" THEN (IF value.b THEN <<"t","r","u","e">> ELSE <<"f","a","l","s","e">>)
  ELSE IF value.t = "str" THEN value.s
  ELSE IF value.t = "num"
  THEN (IF value.neg THEN <<"-">> ELSE <<>>) \o NatToString(value.i)
       \o (IF value.f = <<>> THEN <<>> ELSE <<".">> \o value.f)
  ELSE IF value.t = "arr"
  THEN JoinWith([i \in 1..Len(value.a) |->
                   IF value.a[i].t = "null" THEN <<>> ELSE String(value.a[i])], <<",">>)
  ELSE IF value.t = "fn"
  THEN <<"f","u","n","c","t","i","o","n"," ">> \o value.name
       \o <<"(",")"," ","{"," ","[","n","a","t","i","v","e"," ","c","o","d","e","]"," ","}">>
  ELSE <<"[","o","b","j","e","c","t"," ","O","b","j","e","c","t","]">>

\* String(value ?? '')
StringOrEmpty(value) == IF value.t = "null" THEN <<>> ELSE String(value)

\* Number(text) for a string: decimal notation only (no exponent, hex or Infinity)
\* the number the unsigned text denotes, given the index of its first dot
numberOfBody(neg, unsigned, dot) ==
  IF IsDigits(digitsBefore(unsigned, dot) \o digitsAfter(unsigned, dot))
  THEN numberFromParts(neg, digitsBefore(unsigned, dot), digitsAfter(unsigned, dot))
  ELSE NaN

\* the text without its sign
unsignedText(s) == IF s # <<>> /\ s[1] \in {"-", "+"} THEN Tail(s) ELSE s

\* the number the trimmed text denotes
numberOfTrimmed(s) ==
  IF s = <<>> THEN Zero
  ELSE numberOfBody(s[1] = "-", unsignedText(s), indexOf(unsignedText(s), <<".">>))

NumberOfString(text) == numberOfTrimmed(trim(text))

\* Number(value) with null taken as no number
NumberNullAsNaN(value) ==
  IF value.t = "num" THEN value
  ELSE IF value.t = "bool" THEN (IF value.b THEN Num(1) ELSE Zero)
  ELSE IF value.t \in {"str", "arr"} THEN NumberOfString(String(value))
  ELSE NaN

\* Number(value ?? 0); an array is converted through its string
Number(value) ==
  IF value.t = "num" THEN value
  ELSE IF value.t = "null" THEN Zero
  ELSE IF value.t = "bool" THEN (IF value.b THEN Num(1) ELSE Zero)
  ELSE IF value.t \in {"str", "arr"} THEN NumberOfString(String(value))
  ELSE NaN

RECURSIVE Pow10(_)
Pow10(k) == IF k = 0 THEN 1 ELSE 10 * Pow10(k - 1)

\* the number times 10^k as an integer, for k at least the count of fraction digits
Scaled(num, k) ==
  (IF num.neg THEN 0 - 1 ELSE 1)
  * (num.i * Pow10(k) + StringToNat(num.f) * Pow10(k - Len(num.f)))

\* the greater count of fraction digits of two numbers
fractionDigits(left, right) == IF Len(left.f) > Len(right.f) THEN Len(left.f) ELSE Len(right.f)

\* left < right on two numbers
NumLess(left, right) ==
  Scaled(left, fractionDigits(left, right)) < Scaled(right, fractionDigits(left, right))

(***************************************************************************)
(* Property lookup: the `in` operator and the indexed read                 *)
(***************************************************************************)
\* the members every plain object inherits (those not starting with "_")
ObjectPrototypeKeys == {
  <<"c","o","n","s","t","r","u","c","t","o","r">>,
  <<"h","a","s","O","w","n","P","r","o","p","e","r","t","y">>,
  <<"i","s","P","r","o","t","o","t","y","p","e","O","f">>,
  <<"p","r","o","p","e","r","t","y","I","s","E","n","u","m","e","r","a","b","l","e">>,
  <<"t","o","L","o","c","a","l","e","S","t","r","i","n","g">>,
  <<"t","o","S","t","r","i","n","g">>,
  <<"v","a","l","u","e","O","f">> }

\* a canonical array index: "0", "1", ... without leading zeros
IsArrayIndex(part, len) ==
  /\ IsDigits(part)
  /\ (Len(part) = 1 \/ part[1] # "0")
  /\ StringToNat(part) < len

\* part in value, for a value of typeof "object" that is not null
HasProperty(value, part) ==
  IF value.t = "obj" THEN part \in DOMAIN value.o \/ part \in ObjectPrototypeKeys
  ELSE IF value.t = "arr"
  THEN IsArrayIndex(part, Len(value.a)) \/ part = <<"l","e","n","g","t","h">> \/ part \in ObjectPrototypeKeys
  ELSE FALSE

\* value[part] when part in value
GetProperty(value, part) ==
  IF value.t = "obj"
  THEN IF part \in DOMAIN value.o THEN value.o[part]
       ELSE Fn(IF part = <<"c","o","n","s","t","r","u","c","t","o","r">>
               THEN <<"O","b","j","e","c","t">> ELSE part)
  ELSE IF IsArrayIndex(part, Len(value.a)) THEN value.a[StringToNat(part) + 1]
  ELSE IF part = <<"l","e","n","g","t","h">> THEN Num(Len(value.a))
  ELSE Fn(IF part = <<"c","o","n","s","t","r","u","c","t","o","r">> THEN <<"A","r","r","a","y">> ELSE part)

(***************************************************************************)
(* getValueWithExists, getValue, resolveValue, isTruthy                    *)
(***************************************************************************)
\* the guard without its underscore test
isUnsafeSegmentDenylistOnly(part) == part \in FORBIDDEN_PATHS

\* the guard on one path segment
isUnsafeSegment(part) == part \in FORBIDDEN_PATHS \/ startsWith(part, <<"_">>)

RECURSIVE walkPath(_, _, _)
\* the loop over the segments from the i-th on
walkPath(parts, i, value) ==
  IF i > Len(parts) THEN [value |-> value, exists |-> TRUE]
  ELSE IF isUnsafeSegment(parts[i]) THEN [value |-> Null, exists |-> FALSE]
  ELSE IF HasProperty(value, parts[i]) THEN walkPath(parts, i + 1, GetProperty(value, parts[i]))
  ELSE [value |-> Null, exists |-> FALSE]

getValueWithExists(path, ctx) == walkPath(SplitOn(path, "."), 1, ctx)

getValue(path, ctx) == getValueWithExists(path, ctx).value

\* a run that starts and ends with the same quote character
IsQuoted(s) ==
  \/ startsWith(s, <<"\"">>) /\ endsWith(s, <<"\"">>)
  \/ startsWith(s, <<"'">>) /\ endsWith(s, <<"'">>)

\* resolved.exists ? resolved.value : null
existingValue(resolved) == IF resolved.exists THEN resolved.value ELSE Null

\* the chain of tests on the trimmed expression
resolveNormalized(normalized, ctx) ==
  IF normalized = <<>> THEN Str(<<>>)
  ELSE IF IsQuoted(normalized) THEN Str(SubSeq(normalized, 2, Len(normalized) - 1))
  ELSE IF IsNumeral(normalized) THEN parseNumeral(normalized)
  ELSE IF toLowerCase(normalized) = <<"t","r","u","e">> THEN Bool(TRUE)
  ELSE IF toLowerCase(normalized) = <<"f","a","l","s","e">> THEN Bool(FALSE)
  ELSE IF includes(normalized, <<".">>)
  THEN existingValue(getValueWithExists(normalized, ctx))
  ELSE IF HasProperty(ctx, normalized) THEN GetProperty(ctx, normalized)
  ELSE Str(normalized)

resolveValue(expression, ctx) == resolveNormalized(trim(expression), ctx)

\* the truthiness without the trim of a string
isTruthyUntrimmed(value) ==
  IF value.t = "null" THEN FALSE
  ELSE IF value.t = "bool" THEN value.b
  ELSE IF value.t = "str" THEN Len(value.s) > 0
  ELSE IF value.t = "arr" THEN Len(value.a) > 0
  ELSE IF value.t = "num" THEN value # Zero
  ELSE TRUE

isTruthy(value) ==
  IF value.t = "null" THEN FALSE
  ELSE IF value.t = "bool" THEN value.b
  ELSE IF value.t = "str" THEN Len(trim(value.s)) > 0
  ELSE IF value.t = "arr" THEN Len(value.a) > 0
  ELSE IF value.t = "num" THEN value # Zero
  ELSE TRUE

(***************************************************************************)
(* compareValues and evaluateCondition                                     *)
(***************************************************************************)
\* the switch with a failed coercion counted as zero, as `Number(value) || 0` would
compareOperandsNaNAsZero(leftString, leftNumber, operator, rightString, rightNumber) ==
  IF operator = <<"=">> THEN leftString = rightString
  ELSE IF operator = <<"!","=">> THEN leftString # rightString
  ELSE IF operator = <<"~">> THEN includes(leftString, rightString)
  ELSE IF operator = <<"$">> THEN startsWith(leftString, rightString)
  ELSE IF operator = <<"^">> THEN endsWith(leftString, rightString)
  ELSE IF operator = <<">">>
  THEN NumLess(IF rightNumber = NaN THEN Zero ELSE rightNumber,
               IF leftNumber = NaN THEN Zero ELSE leftNumber)
  ELSE IF operator = <<"<">>
  THEN NumLess(IF leftNumber = NaN THEN Zero ELSE leftNumber,
               IF rightNumber = NaN THEN Zero ELSE rightNumber)
  ELSE IF operator = <<">","=">>
  THEN ~NumLess(IF leftNumber = NaN THEN Zero ELSE leftNumber,
                IF rightNumber = NaN THEN Zero ELSE rightNumber)
  ELSE IF operator = <<"<","=">>
  THEN ~NumLess(IF rightNumber = NaN THEN Zero ELSE rightNumber,
                IF leftNumber = NaN THEN Zero ELSE leftNumber)
  ELSE FALSE

\* the switch over the operator, given both operands as lower-case strings and
\* as numbers
compareOperands(leftString, leftNumber, operator, rightString, rightNumber) ==
  IF operator = <<"=">> THEN leftString = rightString
  ELSE IF operator = <<"!","=">> THEN leftString # rightString
  ELSE IF operator = <<"~">> THEN includes(leftString, rightString)
  ELSE IF operator = <<"$">> THEN startsWith(leftString, rightString)
  ELSE IF operator = <<"^">> THEN endsWith(leftString, rightString)
  ELSE IF leftNumber = NaN \/ rightNumber = NaN THEN FALSE
  ELSE IF operator = <<">">> THEN NumLess(rightNumber, leftNumber)
  ELSE IF operator = <<"<">> THEN NumLess(leftNumber, rightNumber)
  ELSE IF operator = <<">","=">> THEN ~NumLess(leftNumber, rightNumber)
  ELSE IF operator = <<"<","=">> THEN ~NumLess(rightNumber, leftNumber)
  ELSE FALSE

\* the comparison without the lower-casing of the two strings
compareResolvedCaseSensitive(leftValue, operator, rightValue) ==
  compareOperands(StringOrEmpty(leftValue), Number(leftValue), operator,
                  StringOrEmpty(rightValue), Number(rightValue))

\* the comparison of the two resolved operands
compareResolved(leftValue, operator, rightValue) ==
  compareOperands(toLowerCase(StringOrEmpty(leftValue)), Number(leftValue), operator,
                  toLowerCase(StringOrEmpty(rightValue)), Number(rightValue))

compareValues(left, operator, right, ctx) ==
  compareResolved(resolveValue(left, ctx), operator, resolveValue(right, ctx))

\* the first index >= i that holds no whitespace, Len(s) + 1 when there is none
skipWhitespace(s, i) == minOr({k \in i..Len(s) : s[k] \notin Whitespace}, Len(s) + 1)

\* does the word, followed by whitespace, occur at index j > i
wordAfterSpaces(s, i, j, word) ==
  /\ j > i
  /\ OccursAtNoCase(s, j, word)
  /\ j + Len(word) <= Len(s)
  /\ s[j + Len(word)] \in Whitespace

\* does /\s+word\s+/i match at index i
wordMatchAt(s, i, word) == wordAfterSpaces(s, i, skipWhitespace(s, i), word)

\* the condition left whole, whatever the word
splitOnWordNever(s, word) == <<s>>

RECURSIVE splitOnWord(_, _)
\* the split at the first match, found at index i (0: there is none)
splitAtWord(s, i, word) ==
  IF i = 0 THEN <<s>>
  ELSE <<SubSeq(s, 1, i - 1)>>
       \o splitOnWord(SubSeq(s, skipWhitespace(s, skipWhitespace(s, i) + Len(word)), Len(s)),
                      word)

\* normalized.split(/\s+word\s+/i)
splitOnWord(s, word) ==
  splitAtWord(s, minOr({i \in 1..Len(s) : wordMatchAt(s, i, word)}, 0), word)

\* /^not\s+/i
hasNotPrefix(s) == OccursAtNoCase(s, 1, <<"n","o","t">>) /\ Len(s) >= 4 /\ s[4] \in Whitespace

\* normalized.replace(/^not\s+/i, '')
dropNotPrefix(s) == SubSeq(s, skipWhitespace(s, 4), Len(s))

\* the list with the one-character operators before the two-character ones
operatorsShortFirst == << <<"=">>, <<">">>, <<"<">>, <<">","=">>, <<"<","=">>, <<"!","=">>,
                          <<"~">>, <<"$">>, <<"^">> >>

operators == << <<">","=">>, <<"<","=">>, <<"!","=">>, <<"=">>, <<">">>, <<"<">>,
                <<"~">>, <<"$">>, <<"^">> >>

RECURSIVE evaluateCondition(_, _)

\* the comparison around the operator found at the 1-based index
compareAround(normalized, operator, index, ctx) ==
  compareValues(trim(SubSeq(normalized, 1, index - 1)), operator,
                trim(SubSeq(normalized, index + Len(operator), Len(normalized))), ctx)

\* the loop over the operators, given the first k with operators[k] in the
\* condition (0: there is none), and the final truthiness test
evaluateSimple(normalized, k, ctx) ==
  IF k # 0
  THEN compareAround(normalized, operators[k], indexOf(normalized, operators[k]), ctx)
  ELSE isTruthy(resolveValue(normalized, ctx))

\* the tests on the two splits with the `or` split taken before the `and` split
evaluatePartsOrFirst(normalized, andParts, orParts, ctx) ==
  IF Len(orParts) > 1
  THEN \E k \in 1..Len(orParts) : evaluateCondition(orParts[k], ctx)
  ELSE IF Len(andParts) > 1
  THEN \A k \in 1..Len(andParts) : evaluateCondition(andParts[k], ctx)
  ELSE IF hasNotPrefix(normalized)
  THEN ~evaluateCondition(dropNotPrefix(normalized), ctx)
  ELSE evaluateSimple(normalized,
                      minOr({k \in 1..Len(operators) : includes(normalized, operators[k])}, 0),
                      ctx)

\* the tests with the `not` prefix taken before the two splits
evaluatePartsNotFirst(normalized, andParts, orParts, ctx) ==
  IF hasNotPrefix(normalized)
  THEN ~evaluateCondition(dropNotPrefix(normalized), ctx)
  ELSE IF Len(andParts) > 1
  THEN \A k \in 1..Len(andParts) : evaluateCondition(andParts[k], ctx)
  ELSE IF Len(orParts) > 1
  THEN \E k \in 1..Len(orParts) : evaluateCondition(orParts[k], ctx)
  ELSE evaluateSimple(normalized,
                      minOr({k \in 1..Len(operators) : includes(normalized, operators[k])}, 0),
                      ctx)

\* the tests on the `and` split, then on the `or` split, then on the `not` prefix
evaluateParts(normalized, andParts, orParts, ctx) ==
  IF Len(andParts) > 1
  THEN \A k \in 1..Len(andParts) : evaluateCondition(andParts[k], ctx)
  ELSE IF Len(orParts) > 1
  THEN \E k \in 1..Len(orParts) : evaluateCondition(orParts[k], ctx)
  ELSE IF hasNotPrefix(normalized)
  THEN ~evaluateCondition(dropNotPrefix(normalized), ctx)
  ELSE evaluateSimple(normalized,
                      minOr({k \in 1..Len(operators) : includes(normalized, operators[k])}, 0),
                      ctx)

\* the condition after its trim
evaluateNormalized(normalized, ctx) ==
  IF normalized = <<>> THEN FALSE
  ELSE evaluateParts(normalized, splitOnWord(normalized, <<"a","n","d">>),
                     splitOnWord(normalized, <<"o","r">>), ctx)

evaluateCondition(condition, ctx) == evaluateNormalized(trim(condition), ctx)

(***************************************************************************)
(* The modifier pipeline                                                   *)
(***************************************************************************)
units == << <<"B">>, <<"K","B">>, <<"M","B">>, <<"G","B">>, <<"T","B">>, <<"P","B">> >>

\* value.toFixed(1) of the exact quotient n / d, d a power of ten; a quotient
\* half way between two tenths is rounded up, as toFixed does when the double
\* holds it exactly (the sizes of the inputs have no such quotient)
toFixed1(n, d) ==
  LET q == n \div d
      r == n % d
      e == d \div 10
      tenths == IF d = 1 THEN 10 * q
                ELSE 10 * q + (r \div e) + (IF 2 * (r % e) >= e THEN 1 ELSE 0)
  IN NatToString(tenths \div 10) \o <<".", Digits[(tenths % 10) + 1]>>

\* the loop as a single test: the value is divided at most once
scaleUnitsOnce(n, d, unitIndex) ==
  IF n \div d >= 1000 /\ unitIndex < Len(units) - 1
  THEN [d |-> d * 1000, unitIndex |-> unitIndex + 1]
  ELSE [d |-> d, unitIndex |-> unitIndex]

RECURSIVE scaleUnits(_, _, _)
\* the loop `while (value >= 1000 && unitIndex < units.length - 1)` on value = n / d
scaleUnits(n, d, unitIndex) ==
  IF n \div d >= 1000 /\ unitIndex < Len(units) - 1
  THEN scaleUnits(n, d * 1000, unitIndex + 1)
  ELSE [d |-> d, unitIndex |-> unitIndex]

\* `${value.toFixed(1)} ${units[unitIndex]}` for bytes = n / d at the end of the loop
formatScaled(n, scaled) == toFixed1(n, scaled.d) \o <<" ">> \o units[scaled.unitIndex + 1]

\* formatBytes after the conversion to a number
formatBytesOf(bytes) ==
  IF bytes = NaN \/ bytes = Zero \/ bytes.neg THEN <<"0"," ","B">>
  ELSE formatScaled(Scaled(bytes, Len(bytes.f)),
                    scaleUnits(Scaled(bytes, Len(bytes.f)), Pow10(Len(bytes.f)), 0))

formatBytes(size) == formatBytesOf(Number(size))

\* String(n).padStart(2, '0')
padStart2(n) == IF n < 10 THEN <<"0">> \o NatToString(n) ELSE NatToString(n)

\* hh:mm:ss, or mm:ss when there are no hours
formatClock(hours, minutes, remaining) ==
  IF hours > 0
  THEN padStart2(hours) \o <<":">> \o padStart2(minutes) \o <<":">> \o padStart2(remaining)
  ELSE padStart2(minutes) \o <<":">> \o padStart2(remaining)

\* formatTime after the conversion to a number
formatSeconds(seconds) ==
  IF seconds = NaN \/ seconds = Zero \/ seconds.neg THEN <<>>
  ELSE formatClock(seconds.i \div 3600, (seconds.i % 3600) \div 60, seconds.i % 60)

formatTime(secondsInput) == formatSeconds(Number(secondsInput))

escapeChar(c) ==
  IF c = "&" THEN <<"&","a","m","p",";">>
  ELSE IF c = "<" THEN <<"&","l","t",";">>
  ELSE IF c = ">" THEN <<"&","g","t",";">>
  ELSE IF c = "\"" THEN <<"&","q","u","o","t",";">>
  ELSE IF c = "'" THEN <<"&","#","x","2","7",";">>
  ELSE <<c>>

escapeHtml(value) == Concat([i \in 1..Len(value) |-> escapeChar(value[i])])

RECURSIVE titleFrom(_, _)
\* text.replace(/\w\S*/g, capitalise) from the i-th character on
\* the word that runs from i to end, capitalised, and the rest of the text
titleWord(text, i, end) ==
  <<toUpperChar(text[i])>> \o toLowerCase(SubSeq(text, i + 1, end)) \o titleFrom(text, end + 1)

titleFrom(text, i) ==
  IF i > Len(text) THEN <<>>
  ELSE IF text[i] \in WordChars
  THEN titleWord(text, i,
                 minOr({k \in i..Len(text) : text[k] \in Whitespace}, Len(text) + 1) - 1)
  ELSE <<text[i]>> \o titleFrom(text, i + 1)

\* the text without a quote at its end
stripLastQuote(rest) ==
  IF rest # <<>> /\ rest[Len(rest)] \in {"'", "\""} THEN SubSeq(rest, 1, Len(rest) - 1) ELSE rest

\* text.replace(/^['"]|['"]$/g, '')
stripQuotes(text) ==
  stripLastQuote(IF text # <<>> /\ text[1] \in {"'", "\""} THEN Tail(text) ELSE text)

\* the integer the digits from first to last denote, NaN when there are none
parseIntDigits(neg, text, first, last) ==
  IF last < first THEN NaN ELSE numberFromParts(neg, SubSeq(text, first, last), <<>>)

\* the integer the longest run of digits from `first` on denotes
parseIntAt(neg, text, first) ==
  parseIntDigits(neg, text, first,
                 minOr({k \in first..Len(text) : text[k] \notin DigitSet}, Len(text) + 1) - 1)

\* the integer after the leading whitespace, which ends before `start`
parseIntFrom(text, start) ==
  IF start <= Len(text) /\ text[start] \in {"-", "+"}
  THEN parseIntAt(text[start] = "-", text, start + 1)
  ELSE parseIntAt(FALSE, text, start)

\* Number.parseInt(text, 10): NaN, or the integer the longest numeric prefix denotes
parseInt10(text) == parseIntFrom(text, skipWhitespace(text, 1))

RECURSIVE replaceAllFrom(_, _, _, _)
\* text.replaceAll(before, after) from the i-th character on, before not empty
replaceAllFrom(text, i, before, after) ==
  IF i > Len(text) THEN <<>>
  ELSE IF OccursAt(text, i, before)
  THEN after \o replaceAllFrom(text, i + Len(before), before, after)
  ELSE <<text[i]>> \o replaceAllFrom(text, i + 1, before, after)

replaceAll(text, before, after) ==
  IF before = <<>>
  THEN after \o Concat([i \in 1..Len(text) |-> <<text[i]>> \o after])
  ELSE replaceAllFrom(text, 1, before, after)

\* the truthiness of the host language, as tested by `value ? ... : ...`
jsTruthy(value) ==
  IF value.t \in {"null", "nan"} THEN FALSE
  ELSE IF value.t = "bool" THEN value.b
  ELSE IF value.t = "str" THEN value.s # <<>>
  ELSE IF value.t = "num" THEN value # Zero
  ELSE TRUE

\* value.map((entry) => String(entry)).join(separator)
joinEntries(value, separator) ==
  JoinWith([i \in 1..Len(value.a) |-> String(value.a[i])], separator)

\* the `truncate` branch, given the parsed length
truncateTo(text, length) ==
  IF length = NaN \/ length = Zero \/ length.neg THEN Str(text)
  ELSE IF Len(text) > length.i THEN Str(SubSeq(text, 1, length.i) \o <<".",".",".">>)
  ELSE Str(text)

\* the `replace` branch, given the split argument
replaceSplit(text, split) ==
  Str(replaceAll(text,
                 IF Len(split) >= 1 THEN stripQuotes(trim(split[1])) ELSE <<>>,
                 IF Len(split) >= 2 THEN stripQuotes(trim(split[2])) ELSE <<>>))

\* the chain of tests on the lower-case name; text is String(value ?? '')
applyNamed(value, name, modifier, text) ==
  IF name = <<"b","y","t","e","s">> THEN Str(formatBytes(value))
  ELSE IF name = <<"t","i","m","e">> THEN Str(formatTime(value))
  ELSE IF name = <<"u","p","p","e","r">> THEN Str(toUpperCase(text))
  ELSE IF name = <<"l","o","w","e","r">> THEN Str(toLowerCase(text))
  ELSE IF name = <<"t","i","t","l","e">> THEN Str(titleFrom(text, 1))
  ELSE IF name = <<"f","i","r","s","t">>
  THEN (IF value.t = "arr" /\ Len(value.a) > 0 THEN value.a[1] ELSE Str(<<>>))
  ELSE IF name = <<"l","a","s","t">>
  THEN (IF value.t = "arr" /\ Len(value.a) > 0 THEN value.a[Len(value.a)] ELSE Str(<<>>))
  ELSE IF name = <<"l","e","n","g","t","h">>
  THEN (IF jsTruthy(value) /\ value.t = "arr" THEN Num(Len(value.a))
        ELSE IF jsTruthy(value) /\ value.t = "str" THEN Num(Len(value.s))
        ELSE Zero)
  ELSE IF name = <<"e","x","i","s","t","s">> THEN Bool(value.t # "null")
  ELSE IF name = <<"e","s","c","a","p","e">> \/ name = <<"e">> THEN Str(escapeHtml(text))
  ELSE IF name = <<"j","o","i","n">>
  THEN (IF value.t = "arr"
        THEN Str(joinEntries(value, IF modifier.hasArg /\ modifier.arg # <<>>
                                    THEN stripQuotes(trim(modifier.arg)) ELSE <<",", " ">>))
        ELSE Str(text))
  ELSE IF name = <<"t","r","u","n","c","a","t","e">>
  THEN truncateTo(text, parseInt10(IF modifier.hasArg THEN modifier.arg ELSE <<>>))
  ELSE IF name = <<"r","e","p","l","a","c","e">>
  THEN replaceSplit(text, smartSplit(IF modifier.hasArg THEN modifier.arg ELSE <<>>, ","))
  ELSE value

\* the modifier with a name that is not in the chain of tests giving null
applyModifierKnownOnly(value, modifier) ==
  IF toLowerCase(modifier.name) \in
       { <<"b","y","t","e","s">>, <<"t","i","m","e">>, <<"u","p","p","e","r">>,
         <<"l","o","w","e","r">>, <<"t","i","t","l","e">>, <<"f","i","r","s","t">>,
         <<"l","a","s","t">>, <<"l","e","n","g","t","h">>, <<"e","x","i","s","t","s">>,
         <<"e","s","c","a","p","e">>, <<"e">>, <<"j","o","i","n">>,
         <<"t","r","u","n","c","a","t","e">>, <<"r","e","p","l","a","c","e">> }
  THEN applyNamed(value, toLowerCase(modifier.name), modifier, StringOrEmpty(value))
  ELSE Null

\* modifier is [name, hasArg, arg]; arg is null when hasArg is FALSE
applyModifier(value, modifier) ==
  applyNamed(value, toLowerCase(modifier.name), modifier, StringOrEmpty(value))

RECURSIVE applyModifiersReversed(_, _, _)
\* the loop run from the last modifier back to the i-th
applyModifiersReversed(value, modifiers, i) ==
  IF i > Len(modifiers) THEN value
  ELSE applyModifier(applyModifiersReversed(value, modifiers, i + 1), modifiers[i])

RECURSIVE applyModifiers(_, _, _)
\* the loop over node.modifiers from the i-th on
applyModifiers(value, modifiers, i) ==
  IF i > Len(modifiers) THEN value
  ELSE applyModifiers(applyModifier(value, modifiers[i]), modifiers, i + 1)

(***************************************************************************)
(* renderNodes                                                             *)
(***************************************************************************)
\* the chunk pushed for the final value of a variable node
stringify(value) ==
  IF value.t = "arr" THEN joinEntries(value, <<",", " ">>)
  ELSE IF value.t = "bool" THEN <<>>
  ELSE IF value.t = "null" THEN <<>>
  ELSE String(value)

renderVariable(node, ctx) ==
  stringify(applyModifiers(getValue(node.path, ctx), node.modifiers, 1))

\* the filter without its trim: only empty lines are dropped
\* the joined chunks returned as they are
collapseNothing(text) == text

collapseEmptyLines(text) ==
  JoinWith(SelectSeq(SplitOn(text, "\n"), LAMBDA line : Len(line) > 0), <<"\n">>)

\* output.split('\n').filter((line) => line.trim().length > 0).join('\n')
collapseBlankLines(text) ==
  JoinWith(SelectSeq(SplitOn(text, "\n"), LAMBDA line : Len(trim(line)) > 0), <<"\n">>)

\* the loop over the elif branches without its break: the last true one wins
matchedElifLast(truths) ==
  LET hits == {k \in 1..Len(truths) : truths[k]}
  IN IF hits = {} THEN 0 ELSE SetMax(hits)

\* the elif branch the loop renders, given the truth of each elif condition:
\* the first true one, 0 when no condition is true
matchedElif(truths) ==
  LET hits == {k \in 1..Len(truths) : truths[k]}
  IN IF hits = {} THEN 0 ELSE SetMin(hits)

\* the nodes rendered when the condition is false: the body of the k-th elif
\* branch, or the false branch when k = 0
elifOrElse(node, k) == IF k # 0 THEN node.elifBranches[k].body ELSE node.falseBranch

\* the nodes of the branch a conditional node renders
chosenBranch(node, ctx) ==
  IF evaluateCondition(node.condition, ctx) THEN node.trueBranch
  ELSE elifOrElse(node, matchedElif([j \in 1..Len(node.elifBranches) |->
                                      evaluateCondition(node.elifBranches[j].condition, ctx)]))

RECURSIVE renderNodes(_, _)
renderNodes(nodes, ctx) ==
  collapseBlankLines(Concat([i \in 1..Len(nodes) |->
    IF nodes[i].type = "text" THEN nodes[i].text
    ELSE IF nodes[i].type = "variable" THEN renderVariable(nodes[i], ctx)
    ELSE renderNodes(chosenBranch(nodes[i], ctx), ctx)]))

renderTemplatePreview(tpl, ctx) == renderNodes(parse(tokenize(tpl)).nodes, ctx)

(***************************************************************************)
(* The render call as a state machine: the scan loop of tokenize, one      *)
(* iteration per step, then Parser.parse, then renderNodes.  The caller    *)
(* may feed the result back as the template of a second call.              *)
(***************************************************************************)
Start(tpl, ctx) ==
  /\ template = tpl
  /\ context = ctx
  /\ pc = "tokenize"
  /\ position = 0
  /\ tokens = <<>>
  /\ ast = <<>>
  /\ output = <<>>
  /\ pass = 1
  /\ firstOutput = <<>>

\* one iteration of the scan loop; every token covers at least one character,
\* which bounds the number of tokens by the length of the template
TokenizeStep ==
  /\ pc = "tokenize"
  /\ position < Len(template)
  /\ Len(tokens) < Len(template)
  /\ tokens' = Append(tokens, scanStep(template, position).token)
  /\ position' = scanStep(template, position).position
  /\ UNCHANGED <<template, context, pc, ast, output, pass, firstOutput>>

\* the scan loop ends and tokenize returns
TokenizeReturn ==
  /\ pc = "tokenize"
  /\ position >= Len(template)
  /\ pc' = "parse"
  /\ UNCHANGED <<template, context, position, tokens, ast, output, pass, firstOutput>>

Parse ==
  /\ pc = "parse"
  /\ ast' = parse(tokens).nodes
  /\ pc' = "render"
  /\ UNCHANGED <<template, context, position, tokens, output, pass, firstOutput>>

Render ==
  /\ pc = "render"
  /\ output' = renderNodes(ast, context)
  /\ firstOutput' = IF pass = 1 THEN output' ELSE firstOutput
  /\ pc' = "done"
  /\ UNCHANGED <<template, context, position, tokens, ast, pass>>

\* the caller renders the returned string again, with the same context
Rerender ==
  /\ pc = "done"
  /\ pass = 1
  /\ template' = output
  /\ pass' = 2
  /\ pc' = "tokenize"
  /\ position' = 0
  /\ tokens' = <<>>
  /\ ast' = <<>>
  /\ output' = <<>>
  /\ UNCHANGED <<context, firstOutput>>

Next == TokenizeStep \/ TokenizeReturn \/ Parse \/ Render \/ Rerender

(***************************************************************************)
(* Inputs: templates assembled from a few pieces, and small contexts.      *)
(***************************************************************************)
MaxPieces == 3

K_a == <<"a">>
K_b == <<"b">>
K_c == <<"c">>

T_if_a == <<"{","i","f"," ","a","}">>
T_elif_b == <<"{","e","l","i","f"," ","b","}">>
T_else == <<"{","e","l","s","e","}">>
T_endif == <<"{","/","i","f","}">>
T_var_b == <<"{","b","}">>

Pieces == { <<"X">>, <<"\n">>, <<" ">>, T_if_a, T_elif_b, T_else, T_endif, T_var_b,
            <<"{">>, <<"a","}">> }

\* the concatenations of at most n pieces
TemplatesOf(pieces, n) ==
  {Concat(ps) : ps \in UNION {[1..k -> pieces] : k \in 0..n}}

Contexts == { Obj(<<>>),
              Obj((K_a :> Bool(TRUE)) @@ (K_b :> Str(<<"\n","Z">>))),
              Obj((K_a :> Bool(FALSE)) @@ (K_b :> Null)) }

Init == \E tpl \in TemplatesOf(Pieces, MaxPieces), ctx \in Contexts : Start(tpl, ctx)

Spec == Init /\ [][Next]_vars

(***************************************************************************)
(* Inputs for the conditions: bare keys a, b, c joined by `and` / `or`,    *)
(* rendered under every assignment of booleans to the three keys.          *)
(***************************************************************************)
MaxConnectives == 2

Atoms == {K_a, K_b, K_c}
Connectives == {<<"a","n","d">>, <<"o","r">>}

RECURSIVE CondOf(_, _)
\* atoms[1] conns[1] atoms[2] ... with single spaces
CondOf(atoms, conns) ==
  IF conns = <<>> THEN atoms[1]
  ELSE atoms[1] \o <<" ">> \o conns[1] \o <<" ">> \o CondOf(Tail(atoms), Tail(conns))

Conditions ==
  UNION {{CondOf(atoms, conns) : atoms \in [1..(k + 1) -> Atoms], conns \in [1..k -> Connectives]} :
         k \in 0..MaxConnectives}

T_if == <<"{","i","f"," ">>
T_elif == <<"{","e","l","i","f"," ">>

\* {if cond}T{else}F{/if}
CondTemplate(cond) == T_if \o cond \o <<"}","T">> \o T_else \o <<"F">> \o T_endif

TruthContexts ==
  {Obj((K_a :> Bool(x)) @@ (K_b :> Bool(y)) @@ (K_c :> Bool(z))) : x, y, z \in BOOLEAN}

InitCond == \E cond \in Conditions, ctx \in TruthContexts : Start(CondTemplate(cond), ctx)

SpecCond == InitCond /\ [][Next]_vars

(***************************************************************************)
(* Inputs for the branches: {if c}A, then up to MaxElifs times {elif c}    *)
(* with the bodies B, C, ..., then an optional {else}Z, then {/if}.        *)
(***************************************************************************)
MaxElifs == 2

RECURSIVE ElifChain(_, _)
\* {elif conds[1]}B{elif conds[2]}C ... : the i-th body is the (i+1)-th capital
ElifChain(conds, i) ==
  IF i > Len(conds) THEN <<>>
  ELSE T_elif \o conds[i] \o <<"}", Uppers[i + 1]>> \o ElifChain(conds, i + 1)

BranchTemplate(cond, elifConds, withElse) ==
  T_if \o cond \o <<"}","A">> \o ElifChain(elifConds, 1)
  \o (IF withElse THEN T_else \o <<"Z">> ELSE <<>>) \o T_endif

BranchTemplates ==
  UNION {{BranchTemplate(cond, elifConds, withElse) :
            cond \in Atoms, elifConds \in [1..k -> Atoms], withElse \in BOOLEAN} :
         k \in 0..MaxElifs}

InitBranch == \E tpl \in BranchTemplates, ctx \in TruthContexts : Start(tpl, ctx)

SpecBranch == InitBranch /\ [][Next]_vars

(***************************************************************************)
(* Inputs for the paths: dotted paths of safe and unsafe segments, as a    *)
(* variable, as a variable with a modifier and as the operand of a         *)
(* condition, over contexts that hold values under the unsafe keys.        *)
(***************************************************************************)
MaxSegments == 2

K_x == <<"x">>
K_underscore == <<"_","k">>
K_class == <<"_","_","c","l","a","s","s","_","_">>

Segments == {K_a, K_x, K_underscore, K_class}

PathsOf(n) ==
  {JoinWith(segs, <<".">>) : segs \in UNION {[1..k -> Segments] : k \in 1..n}}

PathTemplates(path) ==
  { <<"{">> \o path \o <<"}">>,
    <<"{">> \o path \o <<"|">> \o <<"b","y","t","e","s">> \o <<"}">>,
    T_if \o path \o <<"}","Y">> \o T_else \o <<"N">> \o T_endif,
    T_if \o path \o <<" ","="," ","S","}","Y">> \o T_else \o <<"N">> \o T_endif }

RECURSIVE NestedContext(_, _)
\* a mapping nested `depth` levels deep under the key a, holding `secret` under
\* the unsafe keys of every level
NestedContext(secret, depth) ==
  Obj((K_a :> (IF depth = 0 THEN Str(<<"V">>) ELSE NestedContext(secret, depth - 1)))
      @@ (K_x :> Str(<<"W">>))
      @@ (K_underscore :> secret)
      @@ (K_class :> secret))

Secrets == {Str(<<"S">>), Bool(FALSE)}

PathContexts == {NestedContext(secret, MaxSegments - 1) : secret \in Secrets}

InitPath ==
  \E path \in PathsOf(MaxSegments), ctx \in PathContexts :
    \E tpl \in PathTemplates(path) : Start(tpl, ctx)

SpecPath == InitPath /\ [][Next]_vars

(***************************************************************************)
(* Inputs for the variables: one variable reference, bare or followed by   *)
(* a chain of modifiers, over a context that holds a value of every kind.  *)
(***************************************************************************)
MaxDepth == 2

K_n == <<"n">>
K_s == <<"s">>
K_l == <<"l">>
K_t == <<"t">>
K_z == <<"z">>
K_o == <<"o">>
K_q == <<"q">>
K_toString == <<"t","o","S","t","r","i","n","g">>

\* n a number, s a string, l an array, t a boolean, z null, o a nested mapping;
\* q and toString are keys of no mapping
ValueContext ==
  Obj((K_n :> Num(5))
      @@ (K_s :> Str(<<"H","i">>))
      @@ (K_l :> Arr(<<Str(<<"a">>), Str(<<"b">>)>>))
      @@ (K_t :> Bool(TRUE))
      @@ (K_z :> Null)
      @@ (K_o :> Obj((K_n :> Number3(FALSE, 1, <<"5">>))
                     @@ (K_s :> Str(<<"y","o">>))
                     @@ (K_l :> Arr(<<Num(1), Num(2)>>))
                     @@ (K_t :> Bool(FALSE)))))

ValueContexts == {ValueContext, Obj(<<>>)}

ValueSegments == {K_n, K_s, K_l, K_t, K_z, K_o, K_q, K_toString}

\* the dotted paths of at most n segments
ValuePaths(n) ==
  {JoinWith(segs, <<".">>) : segs \in UNION {[1..k -> ValueSegments] : k \in 1..n}}

\* {path|modifiers[1]|modifiers[2]...}
VarTemplate(path, modifiers) ==
  <<"{">> \o path \o Concat([i \in 1..Len(modifiers) |-> <<"|">> \o modifiers[i]]) \o <<"}">>

M_upper == <<"u","p","p","e","r">>
M_first == <<"f","i","r","s","t">>
M_truncate1 == <<"t","r","u","n","c","a","t","e","(","1",")">>
M_nope == <<"n","o","p","e">>
M_nopeArg == <<"N","o","p","e","(","1",")">>

KnownModifiers == {M_upper, M_first, M_truncate1}
UnknownModifiers == {M_nope, M_nopeArg, K_toString}

\* the paths that are followed by chains of modifiers
ChainPaths == {K_s, K_l, K_n, K_q, K_o \o <<".">> \o K_l}

ValueTemplates ==
  {VarTemplate(path, chain) :
     path \in ValuePaths(MaxDepth), chain \in {<<>>} \cup {<<u>> : u \in UnknownModifiers}}
  \cup {VarTemplate(path, chain) :
          path \in ChainPaths,
          chain \in UNION {[1..k -> KnownModifiers \cup UnknownModifiers] : k \in 1..2}}

InitValue == \E tpl \in ValueTemplates, ctx \in ValueContexts : Start(tpl, ctx)

SpecValue == InitValue /\ [][Next]_vars

(***************************************************************************)
(* Inputs for the bytes modifier: {n|bytes} over a size n of every scale   *)
(* that a 32-bit integer holds, and over the values that are no size.      *)
(***************************************************************************)
MaxUnit == 3

Mantissas == {1, 2, 999, 1234, 1500, 999949, 999960}

\* m * 1000^k for the mantissas m and the scales k up to MaxUnit, below 2^31
ByteAmounts ==
  {x.m * Pow10(3 * x.k) :
     x \in {y \in [m : Mantissas, k : 0..MaxUnit] :
              y.k <= 3 /\ y.m <= 2147483647 \div Pow10(3 * y.k)}}

\* zero, a negative number, null, text that is no numeral, empty text, a mapping
NoByteValues ==
  {Zero, Num(0 - 5), Null, Str(<<"a","b","c">>), Str(<<>>), Obj(<<>>)}

ByteContexts ==
  {Obj(K_n :> Num(amount)) : amount \in ByteAmounts}
  \cup {Obj(K_n :> value) : value \in NoByteValues}
  \cup {Obj(<<>>)}

M_bytes == <<"b","y","t","e","s">>

InitBytes == \E ctx \in ByteContexts : Start(VarTemplate(K_n, <<M_bytes>>), ctx)

SpecBytes == InitBytes /\ [][Next]_vars

(***************************************************************************)
(* Inputs for the comparisons: {if L op R}T{else}F{/if} and                *)
(* {if L op M op R}T{else}F{/if} over one context.                         *)
(***************************************************************************)
K_m == <<"m">>

\* a, b, c hold text, n a number, s the text of a number, z null, o a mapping
CompareContext ==
  Obj((K_a :> Str(<<"x">>))
      @@ (K_b :> Str(<<"X">>))
      @@ (K_c :> Str(<<"x","y">>))
      @@ (K_n :> Num(5))
      @@ (K_s :> Str(<<"1","0">>))
      @@ (K_z :> Null)
      @@ (K_o :> Obj(<<>>)))

\* the operands: their text, and under CompareContext the string form of what
\* they denote, whether that is a number, and ten times that number
CompareOperands ==
  { [text |-> K_a, str |-> <<"x">>, numeric |-> FALSE, tenths |-> 0],
    [text |-> K_b, str |-> <<"X">>, numeric |-> FALSE, tenths |-> 0],
    [text |-> K_c, str |-> <<"x","y">>, numeric |-> FALSE, tenths |-> 0],
    [text |-> K_n, str |-> <<"5">>, numeric |-> TRUE, tenths |-> 50],
    [text |-> K_s, str |-> <<"1","0">>, numeric |-> TRUE, tenths |-> 100],
    [text |-> K_z, str |-> <<>>, numeric |-> TRUE, tenths |-> 0],
    [text |-> K_q, str |-> <<"q">>, numeric |-> FALSE, tenths |-> 0],
    [text |-> <<"o",".","q">>, str |-> <<>>, numeric |-> TRUE, tenths |-> 0],
    [text |-> <<"'","x","'">>, str |-> <<"x">>, numeric |-> FALSE, tenths |-> 0],
    [text |-> <<"5">>, str |-> <<"5">>, numeric |-> TRUE, tenths |-> 50],
    [text |-> <<"0">>, str |-> <<"0">>, numeric |-> TRUE, tenths |-> 0],
    [text |-> <<"1">>, str |-> <<"1">>, numeric |-> TRUE, tenths |-> 10],
    [text |-> <<"-","5">>, str |-> <<"-","5">>, numeric |-> TRUE, tenths |-> 0 - 50],
    [text |-> <<"1",".","5">>, str |-> <<"1",".","5">>, numeric |-> TRUE, tenths |-> 15] }

StringOperators == { <<"=">>, <<"!","=">>, <<"~">>, <<"$">>, <<"^">> }
NumericOperators == { <<">">>, <<"<">>, <<">","=">>, <<"<","=">> }

\* L op R
Comparison(left, operator, right) == left \o <<" ">> \o operator \o <<" ">> \o right

\* the operands of the conditions that hold two operators
MaxOperands == 2
ChainOperands == {(<<K_a, K_n, K_b, K_s>>)[i] : i \in 1..(IF MaxOperands < 4 THEN MaxOperands ELSE 4)}

\* the condition that tells at which operator `a < n = ...` is split
C_splitAtEquals == <<"a"," ","<"," ","n"," ","="," ","'","a"," ","<"," ","n","'">>

CompareConditions ==
  {Comparison(l.text, op, r.text) :
     l \in CompareOperands, op \in StringOperators \cup NumericOperators, r \in CompareOperands}
  \cup {Comparison(l, op1, Comparison(m, op2, r)) :
          l \in ChainOperands, m \in ChainOperands, r \in ChainOperands,
          op1 \in StringOperators \cup NumericOperators,
          op2 \in StringOperators \cup NumericOperators}
  \cup {C_splitAtEquals}

InitCompare == \E cond \in CompareConditions : Start(CondTemplate(cond), CompareContext)

SpecCompare == InitCompare /\ [][Next]_vars

(***************************************************************************)
(* Inputs for the operands: {if E}T{else}F{/if} and {if E = 'V'}T{else}F   *)
(* {/if} over a context that holds a value of every kind, and keys that    *)
(* are spelled like numerals, booleans, quoted text and dotted paths.      *)
(***************************************************************************)
\* the keys e .. y hold one value of every kind
KindValues ==
  (<<"e">> :> Str(<<>>))
  @@ (<<"w">> :> Str(<<" ", "\t">>))
  @@ (<<"s">> :> Str(<<"x">>))
  @@ (<<"p">> :> Str(<<" ", "x", " ">>))
  @@ (<<"v">> :> Str(<<"0">>))
  @@ (<<"y">> :> Str(<<"f","a","l","s","e">>))
  @@ (<<"z">> :> Null)
  @@ (<<"t">> :> Bool(TRUE))
  @@ (<<"f">> :> Bool(FALSE))
  @@ (<<"l">> :> Arr(<<>>))
  @@ (<<"k">> :> Arr(<<Str(<<"a">>)>>))
  @@ (<<"h">> :> Arr(<<Str(<<>>)>>))
  @@ (<<"n">> :> Num(5))
  @@ (<<"d">> :> Zero)
  @@ (<<"g">> :> Num(0 - 5))
  @@ (<<"r">> :> Number3(FALSE, 0, <<"5">>))
  @@ (<<"u">> :> Obj(<<>>))
  @@ (<<"o">> :> Obj(<<"b">> :> Str(<<"i","n">>)))

\* the keys spelled like a numeral, a boolean, quoted text and a dotted path,
\* the empty key, and the key a
SpelledValues ==
  (<<"5">> :> Str(<<"f","i","v","e">>))
  @@ (<<"0">> :> Str(<<"z","e","r","o">>))
  @@ (<<"1">> :> Obj(<<"5">> :> Null))
  @@ (<<"t","r","u","e">> :> Bool(FALSE))
  @@ (<<"F","A","L","S","E">> :> Str(<<"y","e","s">>))
  @@ (<<"'","a","'">> :> Null)
  @@ (<<"a",".","b">> :> Str(<<"f","l","a","t">>))
  @@ (<<>> :> Str(<<"b","l","a","n","k">>))
  @@ (K_a :> Str(<<"x">>))

ResolveContext == Obj(KindValues @@ SpelledValues)

\* the expressions, with the string form and the truthiness of what each is
\* to resolve to under ResolveContext by the order of the rules
ResolveCases ==
  { [text |-> <<>>, form |-> <<>>, truthy |-> FALSE],
    [text |-> <<"'","a","'">>, form |-> <<"a">>, truthy |-> TRUE],
    [text |-> <<"\"","\"">>, form |-> <<>>, truthy |-> FALSE],
    [text |-> <<"'","0","'">>, form |-> <<"0">>, truthy |-> TRUE],
    [text |-> <<"5">>, form |-> <<"5">>, truthy |-> TRUE],
    [text |-> <<"0">>, form |-> <<"0">>, truthy |-> FALSE],
    [text |-> <<"-","5">>, form |-> <<"-","5">>, truthy |-> TRUE],
    [text |-> <<"1",".","5">>, form |-> <<"1",".","5">>, truthy |-> TRUE],
    [text |-> <<"t","r","u","e">>, form |-> <<"t","r","u","e">>, truthy |-> TRUE],
    [text |-> <<"F","A","L","S","E">>, form |-> <<"f","a","l","s","e">>, truthy |-> FALSE],
    [text |-> <<"a",".","b">>, form |-> <<>>, truthy |-> FALSE],
    [text |-> <<"o",".","b">>, form |-> <<"i","n">>, truthy |-> TRUE],
    [text |-> <<"o",".","q">>, form |-> <<>>, truthy |-> FALSE],
    [text |-> K_a, form |-> <<"x">>, truthy |-> TRUE],
    [text |-> K_z, form |-> <<>>, truthy |-> FALSE],
    [text |-> K_q, form |-> <<"q">>, truthy |-> TRUE],
    [text |-> <<"5","x">>, form |-> <<"5","x">>, truthy |-> TRUE],
    [text |-> K_toString, form |-> K_toString, truthy |-> TRUE] }

\* the texts the expressions are compared with
Probes ==
  {case.form : case \in ResolveCases}
  \cup {<<"f","i","v","e">>, <<"z","e","r","o">>, <<"y","e","s">>, <<"f","l","a","t">>,
        <<"b","l","a","n","k">>}

\* E = 'V'
EqualsQuoted(expression, probe) ==
  expression \o <<" ", "=", " ", "'">> \o probe \o <<"'">>

\* identifiers without a dot that are no key of ResolveContext
BareNames ==
  { K_q, K_b, K_x, <<"A">>, K_underscore, <<"a","n","d">>, <<"n","o","t">>, <<"n","o","t","a">>,
    K_toString, <<"c","o","n","s","t","r","u","c","t","o","r">>, <<"v","a","l","u","e","O","f">> }

\* dotted paths, most of them leading nowhere in ResolveContext
DottedPaths ==
  { <<"q",".","b">>, <<"o",".","q">>, <<"o",".","b">>, <<"a",".","b">>, <<"z",".","b">>,
    <<"s",".","l","e","n","g","t","h">>, <<"o",".","b",".","c">>, <<"n",".","b">>,
    <<"l",".","0">>, <<"k",".","0">>, <<"k",".","1">>, <<"k",".","l","e","n","g","t","h">>,
    <<"o",".","t","o","S","t","r","i","n","g">>, <<"u",".","v","a","l","u","e","O","f">>,
    <<"l",".","t","o","S","t","r","i","n","g">> }

ResolveConditions ==
  DOMAIN KindValues
  \cup {case.text : case \in {c \in ResolveCases : c.text # <<>>}}
  \cup {EqualsQuoted(case.text, probe) : case \in ResolveCases, probe \in Probes}
  \cup BareNames
  \cup DottedPaths

InitResolve == \E cond \in ResolveConditions : Start(CondTemplate(cond), ResolveContext)

SpecResolve == InitResolve /\ [][Next]_vars

(***************************************************************************)
(* Inputs for the splitter: {a|content} with every content of delimiters,  *)
(* parentheses, quotes and a plain character.                              *)
(***************************************************************************)
MaxContent == 4

SplitChars == {"|", "(", ")", "'", "\"", "x"}

SplitContents == UNION {[1..k -> SplitChars] : k \in 1..MaxContent}

SplitTemplate(content) == <<"{">> \o K_a \o <<"|">> \o content \o <<"}">>

InitSplit ==
  \E content \in SplitContents : Start(SplitTemplate(content), Obj(K_a :> Str(<<"V">>)))

SpecSplit == InitSplit /\ [][Next]_vars

(***************************************************************************)
(* Inputs for the tokenizer: every short string of braces, a letter, a     *)
(* digit, a space and a bar, and pairs of pieces that are, or nearly are,  *)
(* control tokens.                                                         *)
(***************************************************************************)
MaxChars == 4

BraceChars == {"{", "}", "a", "1", " ", "|"}

BraceStrings == UNION {[1..k -> BraceChars] : k \in 0..MaxChars}

KeywordLike ==
  { <<>>, <<"X">>, <<"\n">>,
    <<"{","i","f","}">>, <<"{","i","f"," ","a">>, <<"{","I","f"," ","a","}">>,
    <<"{"," ","i","f"," ","a","}">>, <<"{","i","f"," ","a","\n","b","}">>,
    <<"{","i","f","\n","a","}">>, <<"{","e","l","i","f","}">>,
    <<"{","E","L","I","F"," ","b","}">>, <<"{","e","l","s","e"," ","}">>,
    <<"{","E","l","s","e","}">>, <<"{","/","i","f"," ","}">>, <<"{","/","I","F","}">>,
    <<"{","/","i","f">>, <<"{","a","|","}">>, <<"{","a","|","u","}">>, <<"{","a",".","1","}">> }

BraceTemplates == BraceStrings \cup {p \o q : p \in KeywordLike, q \in KeywordLike}

InitBrace == \E tpl \in BraceTemplates : Start(tpl, Obj(K_a :> Str(<<"V">>)))

SpecBrace == InitBrace /\ [][Next]_vars

(***************************************************************************)
(* Inputs of the parser properties: every sequence of at most MaxKinds     *)
(* token kinds, the token of the i-th slot named after the i-th letter,    *)
(* and a few longer templates.                                             *)
(***************************************************************************)
MaxKinds == 4

TokenKinds == {"text", "variable", "if", "elif", "else", "endif"}

\* the source of a token of the given kind in the i-th slot
KindPiece(kind, i) ==
  IF kind = "text" THEN <<Uppers[i]>>
  ELSE IF kind = "variable" THEN <<"{", Lowers[i], "}">>
  ELSE IF kind = "if" THEN <<"{","i","f"," ", Lowers[i], "}">>
  ELSE IF kind = "elif" THEN <<"{","e","l","i","f"," ", Lowers[i], "}">>
  ELSE IF kind = "else" THEN T_else
  ELSE T_endif

KindTemplate(kinds) == Concat([i \in 1..Len(kinds) |-> KindPiece(kinds[i], i)])

\* {if a}{if b}X{/if}Y{/if}Z
T_nested ==
  T_if_a \o <<"{","i","f"," ","b","}">> \o <<"X">> \o T_endif \o <<"Y">> \o T_endif \o <<"Z">>

ParseTemplates ==
  {KindTemplate(kinds) : kinds \in UNION {[1..k -> TokenKinds] : k \in 0..MaxKinds}}
  \cup {T_nested}
  \cup {KindTemplate(kinds) : kinds \in
          { <<"if", "text", "else", "text", "else", "text", "elif", "text", "endif", "text">>,
            <<"if", "if", "text", "else", "text", "elif", "text", "endif", "elif", "text",
              "else", "text", "endif">>,
            <<"text", "elif", "else", "endif", "variable", "if", "text">>,
            <<"if", "text", "elif", "if", "text", "else", "variable", "endif", "text",
              "else", "if", "text", "endif", "else", "text">> }}

ParseContexts == {Obj([k \in {<<Lowers[i]>> : i \in 1..13} |-> Bool(b)]) : b \in BOOLEAN}

InitParse == \E tpl \in ParseTemplates, ctx \in ParseContexts : Start(tpl, ctx)

SpecParse == InitParse /\ [][Next]_vars

(***************************************************************************)
(* Inputs of the negation properties: operands with up to MaxNots leading  *)
(* `not`, alone, joined by and / or, and compared.                         *)
(***************************************************************************)
MaxNots == 2

\* the spellings of the prefix: the regular expression ignores case and takes
\* any run of whitespace
NotSpellings == { <<"n","o","t"," ">>, <<"N","O","T"," ","\t">> }

\* the runs of at most MaxNots prefixes
NotPrefixes == {Concat(ws) : ws \in UNION {[1..k -> NotSpellings] : k \in 0..MaxNots}}

NotAtoms == {K_a, K_b}

NotOperands == {prefix \o atom : prefix \in NotPrefixes, atom \in NotAtoms}

NotConditions ==
  NotOperands
  \cup {l \o <<" ">> \o conn \o <<" ">> \o r :
          l \in NotOperands, conn \in Connectives, r \in NotOperands}
  \cup {prefix \o Comparison(l, op, r) :
          prefix \in NotPrefixes, l \in NotAtoms, op \in {<<"=">>, <<"!","=">>}, r \in NotAtoms}

NotContexts == {Obj((K_a :> Bool(x)) @@ (K_b :> Bool(y))) : x, y \in BOOLEAN}

InitNot == \E cond \in NotConditions, ctx \in NotContexts : Start(CondTemplate(cond), ctx)

SpecNot == InitNot /\ [][Next]_vars

(***************************************************************************)
(* Inputs of the quoting properties: x compared with a quoted text of at   *)
(* most MaxWords words, some of them the words and / or.                   *)
(***************************************************************************)
MaxWords == 3

QuoteWords == { K_a, K_b, <<"a","n","d">>, <<"A","N","D">>, <<"o","r">> }
QuoteMarks == { "\"", "'" }

\* the words of the condition x = Qw1 w2 ... wkQ
QuotedWords(mark, ws) ==
  <<K_x, <<"=">>>>
  \o [i \in 1..Len(ws) |->
        (IF i = 1 THEN <<mark>> ELSE <<>>) \o ws[i] \o (IF i = Len(ws) THEN <<mark>> ELSE <<>>)]

QuotedConditions ==
  {JoinWith(QuotedWords(mark, ws), <<" ">>) :
     mark \in QuoteMarks, ws \in UNION {[1..k -> QuoteWords] : k \in 1..MaxWords}}

QuoteContexts ==
  {Obj(K_x :> Str(text)) :
     text \in { <<"a"," ","a","n","d"," ","b">>, <<"\"","a">>, <<"'","A">>, <<"a">>,
                <<"a"," ","o","r"," ","b">>, <<"a","n","d">> }}

InitQuote == \E cond \in QuotedConditions, ctx \in QuoteContexts : Start(CondTemplate(cond), ctx)

SpecQuote == InitQuote /\ [][Next]_vars

(***************************************************************************)
(* Helpers of the properties                                               *)
(***************************************************************************)
HasBrace(text) == \E i \in 1..Len(text) : text[i] = "{"

IsBlankLine(line) == \A k \in 1..Len(line) : line[k] \in Whitespace

\* the text without its blank lines
WithoutBlankLines(text) ==
  JoinWith(SelectSeq(SplitOn(text, "\n"), LAMBDA line : ~IsBlankLine(line)), <<"\n">>)

RECURSIVE rawOutput(_, _)
\* the plain concatenation of what every node contributes, nothing collapsed
rawOutput(nodes, ctx) ==
  Concat([i \in 1..Len(nodes) |->
            IF nodes[i].type = "text" THEN nodes[i].text
            ELSE IF nodes[i].type = "variable" THEN renderVariable(nodes[i], ctx)
            ELSE rawOutput(chosenBranch(nodes[i], ctx), ctx)])

RECURSIVE OpenAtEnd(_)
\* the number of conditionals still open after the tokens: an `if` opens one,
\* an `endif` closes the innermost open one
OpenAtEnd(toks) ==
  IF toks = <<>> THEN 0
  ELSE LET before == OpenAtEnd(SubSeq(toks, 1, Len(toks) - 1))
           last == toks[Len(toks)]
       IN IF last.type = "if" THEN before + 1
          ELSE IF last.type = "endif" /\ before > 0 THEN before - 1
          ELSE before

Endifs(n) == [i \in 1..n |-> EndifToken]

RemoveAt(seq, i) == SubSeq(seq, 1, i - 1) \o SubSeq(seq, i + 1, Len(seq))

\* the i-th token is an elif outside every conditional
IsOrphanElif(toks, i) == toks[i].type = "elif" /\ OpenAtEnd(SubSeq(toks, 1, i - 1)) = 0

(***************************************************************************)
(* Properties of the whole render call (Spec, FairSpec)                    *)
(***************************************************************************)
\* C1: the blank-line collapse runs once, after the whole tree is rendered: the
\* output is the collapse of the plain concatenation of every node's
\* uncollapsed output, taken branches included.
C1_CollapseOnce ==
  pc = "done" => output = collapseBlankLines(rawOutput(ast, context))

\* a state in which the call has returned or its next step can be taken
CanStep ==
  \/ pc = "tokenize" /\ position < Len(template) /\ Len(tokens) < Len(template)
  \/ pc = "tokenize" /\ position >= Len(template)
  \/ pc \in {"parse", "render", "done"}

\* every step moves the call forward: the scan loop advances inside the
\* template, and each later stage is entered once
StepsForward ==
  \/ pc = "tokenize" /\ pc' = "tokenize" /\ position < position' /\ position' <= Len(template)
  \/ pc = "tokenize" /\ pc' = "parse"
  \/ pc = "parse" /\ pc' = "render"
  \/ pc = "render" /\ pc' = "done"
  \/ pc = "done" /\ pass = 1 /\ pass' = 2 /\ pc' = "tokenize"

C7_ImplicitClose ==
  pc \in {"render", "done"} => ast = parse(tokens \o Endifs(OpenAtEnd(tokens))).nodes

C7_Witness ==
  /\ pc = "done"
  /\ OpenAtEnd(tokens) > 0
  /\ \E i \in 1..Len(ast) : ast[i].type = "if" /\ ast[i].trueBranch # <<>>
  /\ output # <<>>

\* C8: an elif with no preceding if contributes nothing and stops nothing: the
\* output is that of the same tokens without it.
C8_OrphanElif ==
  pc = "done" =>
    \A i \in 1..Len(tokens) :
      IsOrphanElif(tokens, i) =>
        output = renderNodes(parse(RemoveAt(tokens, i)).nodes, context)

C8_Witness ==
  /\ pc = "done"
  /\ \E i \in 1..(Len(tokens) - 1) :
       IsOrphanElif(tokens, i) /\ tokens[i + 1].type \in {"text", "variable"}
  /\ output # <<>>

\* C9: a template with no opening brace renders to itself without its blank
\* lines, whatever the context.
C9_LiteralText ==
  (pc = "done" /\ ~HasBrace(template)) => output = WithoutBlankLines(template)

C9_Witness ==
  /\ pc = "done"
  /\ pass = 1
  /\ ~HasBrace(template)
  /\ context # Obj(<<>>)
  /\ output # <<>>
  /\ output # template

\* C10 as stated: rendering the output again, with the same context, always
\* gives the same string.
C10_Idempotent ==
  (pc = "done" /\ pass = 2) => output = firstOutput

\* C10 as amended: rendering the output again gives the same string when the
\* output holds no opening brace.
C10_IdempotentPlain ==
  (pc = "done" /\ pass = 2 /\ ~HasBrace(firstOutput)) => output = firstOutput

C10_Witness ==
  /\ pc = "done"
  /\ pass = 2
  /\ ~HasBrace(firstOutput)
  /\ \E i \in 1..Len(firstOutput) : firstOutput[i] = "\n"
  /\ output = firstOutput

(***************************************************************************)
(* Properties of the evaluator (SpecPath, SpecCond, SpecBranch)            *)
(***************************************************************************)
\* some segment of the dotted path is denylisted or starts with an underscore
HasUnsafeSegment(path) ==
  \E seg \in {SplitOn(path, ".")[i] : i \in 1..Len(SplitOn(path, "."))} :
    seg \in FORBIDDEN_PATHS \/ (seg # <<>> /\ seg[1] = "_")

\* the template is one variable reference with an unsafe path
IsUnsafeVariable ==
  /\ Len(tokens) = 1
  /\ tokens[1].type = "variable"
  /\ HasUnsafeSegment(tokens[1].path)

RECURSIVE Scrub(_)
\* the value with Null stored under every unsafe key, at every depth
Scrub(value) ==
  IF value.t = "obj"
  THEN Obj([key \in DOMAIN value.o |->
              IF HasUnsafeSegment(key) THEN Null ELSE Scrub(value.o[key])])
  ELSE IF value.t = "arr" THEN Arr([i \in 1..Len(value.a) |-> Scrub(value.a[i])])
  ELSE value

\* C3: what is stored under unsafe keys never shows: the output is the one that
\* the same template gives when every unsafe key holds null.
C3_UnsafeInvisible ==
  pc = "done" => output = renderTemplatePreview(template, Scrub(context))

\* the boolean stored under a key of the context
Truth(key) == context.o[key].b

\* C4: `and` is the outer split and `or` the inner one: x and y or z is
\* x AND (y OR z), and x or y and z is (x OR y) AND z.
C4_AndOuter ==
  (pc = "done" /\ pass = 1) =>
    \A x, y, z \in Atoms :
      /\ tokens[1] = IfToken(CondOf(<<x, y, z>>, <<<<"a","n","d">>, <<"o","r">>>>))
           => output = (IF Truth(x) /\ (Truth(y) \/ Truth(z)) THEN <<"T">> ELSE <<"F">>)
      /\ tokens[1] = IfToken(CondOf(<<x, y, z>>, <<<<"o","r">>, <<"a","n","d">>>>))
           => output = (IF (Truth(x) \/ Truth(y)) /\ Truth(z) THEN <<"T">> ELSE <<"F">>)

C4_Witness ==
  /\ pc = "done"
  /\ pass = 1
  /\ tokens[1] = IfToken(CondOf(<<K_a, K_b, K_c>>, <<<<"a","n","d">>, <<"o","r">>>>))
  /\ ~Truth(K_a) /\ Truth(K_b) /\ ~Truth(K_c)
  /\ output = <<"F">>

\* the branch of the conditional node that the claim selects
ExpectedBranch(node) ==
  LET hits == {k \in 1..Len(node.elifBranches) : Truth(node.elifBranches[k].condition)}
  IN IF Truth(node.condition) THEN node.trueBranch
     ELSE IF hits # {} THEN node.elifBranches[SetMin(hits)].body
     ELSE node.falseBranch

\* C5: a conditional contributes the output of exactly one branch: the true
\* branch, else the first elif whose condition is true, else the else branch.
C5_OneBranch ==
  (pc = "done" /\ pass = 1) =>
    /\ Len(ast) = 1
    /\ ast[1].type = "if"
    /\ output = Concat([i \in 1..Len(ExpectedBranch(ast[1])) |-> ExpectedBranch(ast[1])[i].text])

C5_Witness ==
  /\ pc = "done"
  /\ pass = 1
  /\ Len(ast[1].elifBranches) = 2
  /\ ~Truth(ast[1].condition)
  /\ Truth(ast[1].elifBranches[1].condition)
  /\ Truth(ast[1].elifBranches[2].condition)
  /\ output = <<"B">>

(***************************************************************************)
(* Properties of the variables and the modifiers (SpecValue)               *)
(***************************************************************************)
\* the template is one variable reference
IsVariable == Len(tokens) = 1 /\ tokens[1].type = "variable"

RECURSIVE OwnValue(_, _, _)
\* the value found by walking the keys parts[i], parts[i + 1], ... through
\* nested mappings; null when a key is missing
OwnValue(parts, i, value) ==
  IF i > Len(parts) THEN value
  ELSE IF value.t = "obj" /\ parts[i] \in DOMAIN value.o
  THEN OwnValue(parts, i + 1, value.o[parts[i]])
  ELSE Null

\* the text a value renders as: nothing for null and booleans, the elements
\* joined by ", " for an array, the natural string form otherwise
NaturalForm(value) ==
  IF value.t \in {"null", "bool"} THEN <<>>
  ELSE IF value.t = "arr"
  THEN JoinWith([i \in 1..Len(value.a) |-> String(value.a[i])], <<",", " ">>)
  ELSE String(value)

\* C11: a variable with no modifiers renders the value found by walking its
\* dotted path through the mappings of the context, in its natural form; a
\* path missing at any segment, null and booleans render as nothing.
C11_PathValue ==
  (pc = "done" /\ pass = 1 /\ IsVariable /\ tokens[1].modifiers = <<>>) =>
    output = WithoutBlankLines(NaturalForm(OwnValue(SplitOn(tokens[1].path, "."), 1, context)))

\* no segment of the path names a member that every mapping and array inherits
NoInheritedSegment(path) ==
  \A i \in 1..Len(SplitOn(path, ".")) : SplitOn(path, ".")[i] \notin ObjectPrototypeKeys

\* the same for the paths whose segments name no inherited member
C11_OwnPathValue ==
  (pc = "done" /\ pass = 1 /\ IsVariable /\ tokens[1].modifiers = <<>>
   /\ NoInheritedSegment(tokens[1].path)) =>
    output = WithoutBlankLines(NaturalForm(OwnValue(SplitOn(tokens[1].path, "."), 1, context)))

\* the [name, arg] entry of each modifier as it is written in the templates
ModifierEntries ==
  (M_upper :> [name |-> M_upper, hasArg |-> FALSE, arg |-> <<>>])
  @@ (M_first :> [name |-> M_first, hasArg |-> FALSE, arg |-> <<>>])
  @@ (M_truncate1 :> [name |-> <<"t","r","u","n","c","a","t","e">>, hasArg |-> TRUE,
                      arg |-> <<"1">>])
  @@ (M_nope :> [name |-> M_nope, hasArg |-> FALSE, arg |-> <<>>])
  @@ (M_nopeArg :> [name |-> <<"N","o","p","e">>, hasArg |-> TRUE, arg |-> <<"1">>])
  @@ (K_toString :> [name |-> K_toString, hasArg |-> FALSE, arg |-> <<>>])

\* the text rendered for a value after the final collapse of blank lines
Rendered(value) == WithoutBlankLines(stringify(value))

\* C12: the modifiers of a variable are applied strictly left to right: the
\* first receives the resolved value, the second the result of the first,
\* and the rendered text is the stringification of the last result.
C12_LeftToRight ==
  (pc = "done" /\ pass = 1) =>
    \A path \in ChainPaths, m1 \in DOMAIN ModifierEntries, m2 \in DOMAIN ModifierEntries :
      template = VarTemplate(path, <<m1, m2>>) =>
        output = Rendered(applyModifier(applyModifier(getValue(path, context),
                                                      ModifierEntries[m1]),
                                        ModifierEntries[m2]))

\* {l|first|upper} over l = [a, b] has rendered A, which the opposite order
\* of the two modifiers does not give
C12_Witness ==
  /\ pc = "done"
  /\ template = VarTemplate(K_l, <<M_first, M_upper>>)
  /\ context = ValueContext
  /\ output = <<"A">>
  /\ Rendered(applyModifier(applyModifier(getValue(K_l, context), ModifierEntries[M_upper]),
                            ModifierEntries[M_first])) # output

(***************************************************************************)
(* Properties of the bytes modifier (SpecBytes)                            *)
(***************************************************************************)
\* the index of the unit of a size: one step per three integer digits, PB at most
UnitOf(amount) ==
  IF (Len(NatToString(amount)) - 1) \div 3 < 5 THEN (Len(NatToString(amount)) - 1) \div 3 ELSE 5

\* X.Y for the number of tenths
TenthsText(tenths) == NatToString(tenths \div 10) \o <<".">> \o NatToString(tenths % 10)

\* the numbers of tenths nearest to amount / scale, scale a power of 1000
\* (both neighbours when amount / scale lies half way between them)
NearestTenths(amount, scale) ==
  IF scale = 1 THEN {10 * amount}
  ELSE LET below == 10 * (amount \div scale) + (amount % scale) \div (scale \div 10)
           rest == amount % (scale \div 10)
       IN {t \in {below, below + 1} :
             IF t = below THEN 2 * rest <= scale \div 10 ELSE 2 * rest >= scale \div 10}

\* the texts the claim allows for a positive size
ByteTexts(amount) ==
  {TenthsText(t) \o <<" ">> \o units[UnitOf(amount) + 1] :
     t \in NearestTenths(amount, Pow10(3 * UnitOf(amount)))}

C13_Units ==
  /\ {UnitOf(amount) : amount \in ByteAmounts} = 0..3
  /\ ((pc = "done" /\ pass = 1 /\ context = Obj(K_n :> Num(999960))) =>
        output = <<"1","0","0","0",".","0"," ","K","B">>)

(***************************************************************************)
(* Properties of the comparisons (SpecCompare)                             *)
(***************************************************************************)
\* the whole of the true branch has been rendered
RenderedTrue == output = <<"T">>

Contains(text, part) ==
  \E i \in 0..(Len(text) - Len(part)) : SubSeq(text, i + 1, i + Len(part)) = part

\* what a string operator says of two strings
StringHolds(operator, left, right) ==
  IF operator = <<"=">> THEN left = right
  ELSE IF operator = <<"!","=">> THEN left # right
  ELSE IF operator = <<"~">> THEN Contains(left, right)
  ELSE IF operator = <<"$">>
  THEN Len(right) <= Len(left) /\ SubSeq(left, 1, Len(right)) = right
  ELSE Len(right) <= Len(left) /\ SubSeq(left, Len(left) - Len(right) + 1, Len(left)) = right

\* every comparison with a string operator and what the claim says of it
StringCases ==
  {[template |-> CondTemplate(Comparison(l.text, op, r.text)),
    holds |-> StringHolds(op, toLowerCase(l.str), toLowerCase(r.str)),
    equal |-> toLowerCase(l.str) = toLowerCase(r.str),
    operator |-> op] :
     l \in CompareOperands, op \in StringOperators, r \in CompareOperands}

\* C14: =, !=, ~, $ and ^ compare the lower-cased string forms of the two
\* resolved sides (equal, not equal, contains, starts with, ends with), and
\* != is the negation of =.
C14_StringOperators ==
  (pc = "done" /\ pass = 1) =>
    \A case \in StringCases :
      template = case.template =>
        /\ RenderedTrue = case.holds
        /\ case.operator = <<"!","=">> => RenderedTrue = ~case.equal
        /\ case.operator = <<"=">> => RenderedTrue = case.equal

\* `a = b` has rendered its true branch with a = x and b = X
C14_Witness ==
  /\ pc = "done"
  /\ template = CondTemplate(Comparison(K_a, <<"=">>, K_b))
  /\ context.o[K_a] = Str(<<"x">>) /\ context.o[K_b] = Str(<<"X">>)
  /\ RenderedTrue

\* the place of an operator in the list >=, <=, !=, =, >, <, ~, $, ^
Priority(operator) ==
  CHOOSE k \in 1..9 :
    << <<">","=">>, <<"<","=">>, <<"!","=">>, <<"=">>, <<">">>, <<"<">>,
       <<"~">>, <<"$">>, <<"^">> >>[k] = operator

\* every condition with one or two operators between plain operands, and the
\* operator and the two sides the claim compares
OperatorCases ==
  {[template |-> CondTemplate(Comparison(l.text, op, r.text)),
    left |-> l.text, operator |-> op, right |-> r.text] :
     l \in CompareOperands, op \in StringOperators \cup NumericOperators, r \in CompareOperands}
  \cup {[template |-> CondTemplate(Comparison(l, op1, Comparison(m, op2, r))),
         left |-> IF Priority(op1) <= Priority(op2) THEN l ELSE Comparison(l, op1, m),
         operator |-> IF Priority(op1) <= Priority(op2) THEN op1 ELSE op2,
         right |-> IF Priority(op1) <= Priority(op2) THEN Comparison(m, op2, r) ELSE r] :
          l \in ChainOperands, m \in ChainOperands, r \in ChainOperands,
          op1 \in StringOperators \cup NumericOperators,
          op2 \in StringOperators \cup NumericOperators}
  \cup {[template |-> CondTemplate(C_splitAtEquals),
         left |-> <<"a"," ","<"," ","n">>, operator |-> <<"=">>,
         right |-> <<"'","a"," ","<"," ","n","'">>]}

\* C15: a condition without and, or and a leading not is compared with the
\* first operator of the list >=, <=, !=, =, >, <, ~, $, ^ whose text occurs
\* in it, split around the first occurrence of that operator.
C15_FirstListedOperator ==
  (pc = "done" /\ pass = 1) =>
    \A case \in OperatorCases :
      template = case.template =>
        RenderedTrue = compareValues(case.left, case.operator, case.right, context)

\* `a < n = 'a < n'` has rendered its true branch: it was split at the =, the
\* left side being the text `a < n`; and `n >= 5` is true only as a >=
C15_Witness ==
  /\ pc = "done"
  /\ template = CondTemplate(C_splitAtEquals)
  /\ RenderedTrue
  /\ compareValues(K_n, <<">","=">>, <<"5">>, context)
  /\ ~compareValues(<<"n"," ",">">>, <<"=">>, <<"5">>, context)
  /\ ~compareValues(K_n, <<">">>, <<"="," ","5">>, context)

\* what a numeric operator says of two numbers
NumberHolds(operator, left, right) ==
  IF operator = <<">">> THEN left > right
  ELSE IF operator = <<"<">> THEN left < right
  ELSE IF operator = <<">","=">> THEN left >= right
  ELSE left <= right

\* every comparison with a numeric operator and what the claim says of it
NumericCases ==
  {[template |-> CondTemplate(Comparison(l.text, op, r.text)),
    fails |-> ~l.numeric \/ ~r.numeric,
    holds |-> l.numeric /\ r.numeric /\ NumberHolds(op, l.tenths, r.tenths)] :
     l \in CompareOperands, op \in NumericOperators, r \in CompareOperands}

\* C16: >, <, >= and <= compare the two resolved sides as numbers, and are
\* false, for all four operators, when either side is no number.
C16_NumericOperators ==
  (pc = "done" /\ pass = 1) =>
    \A case \in NumericCases :
      template = case.template =>
        /\ RenderedTrue = case.holds
        /\ case.fails => output = <<"F">>

\* `a <= n` has rendered its false branch with a = x, which is no number
C16_Witness ==
  /\ pc = "done"
  /\ template = CondTemplate(Comparison(K_a, <<"<","=">>, K_n))
  /\ context.o[K_a] = Str(<<"x">>)
  /\ output = <<"F">>

(***************************************************************************)
(* Properties of the operands (SpecResolve)                                *)
(***************************************************************************)
\* the truthiness of a value by its kind
KindTruth(value) ==
  CASE value.t = "null" -> FALSE
    [] value.t = "bool" -> value.b
    [] value.t = "str" -> \E i \in 1..Len(value.s) : value.s[i] \notin Whitespace
    [] value.t = "arr" -> value.a # <<>>
    [] value.t = "num" -> ~(value.i = 0 /\ \A i \in 1..Len(value.f) : value.f[i] = "0")
    [] OTHER -> TRUE

\* C17: a condition that is one operand is the truthiness of its value: false
\* for null, the boolean itself, a string when it is not blank, an array when
\* it is not empty, a number when it is not zero, true for any other value.
C17_Truthiness ==
  (pc = "done" /\ pass = 1) =>
    \A key \in DOMAIN KindValues :
      template = CondTemplate(key) => RenderedTrue = KindTruth(context.o[key])

\* the blank string under w has rendered the false branch, which a test of
\* its length alone does not give
C17_Witness ==
  /\ pc = "done"
  /\ template = CondTemplate(<<"w">>)
  /\ context.o[<<"w">>] = Str(<<" ", "\t">>)
  /\ output = <<"F">>

\* the values of every kind are there, true ones and false ones
C17_Kinds ==
  /\ {KindValues[key].t : key \in DOMAIN KindValues} = {"null", "bool", "str", "arr", "num", "obj"}
  /\ \A t \in {"bool", "str", "arr", "num"} :
       {KindTruth(KindValues[key]) : key \in {k \in DOMAIN KindValues : KindValues[k].t = t}}
         = BOOLEAN

\* the expression renders as the claim says: alone by its truthiness, and
\* compared with quoted text by its string form
ResolvesAsClaimed(case) ==
  /\ template = CondTemplate(case.text) => RenderedTrue = case.truthy
  /\ \A probe \in Probes :
       template = CondTemplate(EqualsQuoted(case.text, probe)) =>
         RenderedTrue = (toLowerCase(case.form) = toLowerCase(probe))

\* C18: an expression resolves by the first rule that applies: empty text is
\* the empty string, quoted text its inside, a numeral the number, true and
\* false in any case the booleans, text with a dot a path lookup (null when
\* missing), a direct key of the context its value, any other text itself;
\* a key spelled like a numeral or a boolean is never consulted.
C18_ResolveOrder ==
  (pc = "done" /\ pass = 1) => \A case \in ResolveCases : ResolvesAsClaimed(case)

\* the same for the expressions that name no inherited member
C18_OwnResolveOrder ==
  (pc = "done" /\ pass = 1) =>
    \A case \in {c \in ResolveCases : c.text \notin ObjectPrototypeKeys} :
      ResolvesAsClaimed(case)

(***************************************************************************)
(* Properties of the unknown modifiers (SpecValue)                         *)
(***************************************************************************)
\* C19: a modifier whose lower-cased name is not known passes its value
\* through: {p|u} renders as {p} does, and {p|u|m} as {p|m} does.
C19_UnknownPassesThrough ==
  (pc = "done" /\ pass = 1) =>
    /\ \A path \in ValuePaths(MaxDepth), u \in UnknownModifiers :
         template = VarTemplate(path, <<u>>) =>
           output = renderTemplatePreview(VarTemplate(path, <<>>), context)
    /\ \A path \in ChainPaths, u \in UnknownModifiers, m \in KnownModifiers :
         /\ template = VarTemplate(path, <<u, m>>) =>
              output = renderTemplatePreview(VarTemplate(path, <<m>>), context)
         /\ template = VarTemplate(path, <<m, u>>) =>
              output = renderTemplatePreview(VarTemplate(path, <<m>>), context)

\* {l|nope} over l = [a, b] has rendered the array, and {l|nope|first} its
\* first element
C19_Witness ==
  /\ pc = "done"
  /\ context = ValueContext
  /\ \/ template = VarTemplate(K_l, <<M_nope>>) /\ output = <<"a", ",", " ", "b">>
     \/ template = VarTemplate(K_l, <<M_nope, M_first>>) /\ output = <<"a">>

(***************************************************************************)
(* Properties of the splitter (SpecSplit)                                  *)
(***************************************************************************)
RECURSIVE ScanState(_, _)
\* the parenthesis depth and the two quote flags after the first k characters:
\* a quote toggles its own flag while the other flag is off; outside quotes an
\* opening parenthesis raises the depth and a closing one lowers it, not
\* below zero
ScanState(input, k) ==
  IF k = 0 THEN [depth |-> 0, single |-> FALSE, double |-> FALSE]
  ELSE LET before == ScanState(input, k - 1)
           char == input[k]
       IN IF char = "'" /\ ~before.double THEN [before EXCEPT !.single = ~@]
          ELSE IF char = "\"" /\ ~before.single THEN [before EXCEPT !.double = ~@]
          ELSE IF before.single \/ before.double THEN before
          ELSE IF char = "(" THEN [before EXCEPT !.depth = @ + 1]
          ELSE IF char = ")" THEN [before EXCEPT !.depth = IF @ > 0 THEN @ - 1 ELSE 0]
          ELSE before

\* the delimiters met at depth zero outside quotes
SplitPoints(input, delimiter) ==
  {k \in 1..Len(input) :
     /\ input[k] = delimiter
     /\ ScanState(input, k - 1) = [depth |-> 0, single |-> FALSE, double |-> FALSE]}

\* the text between the split points, in order; the text after the last split
\* point is left out when it is empty
Fragments(input, delimiter) ==
  LET points == SplitPoints(input, delimiter)
      n == Cardinality(points)
      point(i) == CHOOSE p \in points : Cardinality({q \in points : q < p}) = i - 1
      all == [i \in 1..(n + 1) |->
                SubSeq(input, IF i = 1 THEN 1 ELSE point(i - 1) + 1,
                       IF i <= n THEN point(i) - 1 ELSE Len(input))]
  IN IF all[n + 1] = <<>> THEN SubSeq(all, 1, n) ELSE all

\* the text of a fragment, from the modifier entry made of it
FragmentOf(modifier) ==
  IF modifier.hasArg THEN modifier.name \o <<"(">> \o modifier.arg \o <<")">>
  ELSE modifier.name

\* the fragments the variable token was made of
TokenFragments(token) ==
  <<token.path>> \o [i \in 1..Len(token.modifiers) |-> FragmentOf(token.modifiers[i])]

\* C20: smartSplit splits at a delimiter only at parenthesis depth zero and
\* outside quotes; a quote toggles its own flag only while the other is off;
\* parentheses count only outside quotes and the depth never falls below
\* zero; the fragments between adjacent delimiters are kept even when empty,
\* and the last fragment is dropped when it is empty.
C20_SmartSplit ==
  (pc = "done" /\ pass = 1) =>
    /\ IsVariable
    /\ TokenFragments(tokens[1]) = Fragments(SubSeq(template, 2, Len(template) - 1), "|")

\* {a|'|'|} was split into a and '|': the delimiter inside the quotes did not
\* split, the one after them did, and the empty fragment at the end was dropped
C20_Witness ==
  /\ pc = "done"
  /\ template = SplitTemplate(<<"'", "|", "'", "|">>)
  /\ TokenFragments(tokens[1]) = <<K_a, <<"'", "|", "'">> >>

\* the contents hold every case of the rules: a delimiter inside parentheses,
\* a closing parenthesis at depth zero, a quote inside the other quotes, a
\* parenthesis inside quotes, an empty fragment between delimiters
C20_Cases ==
  /\ Fragments(<<"(", "|", ")", "|">>, "|") = << <<"(", "|", ")">> >>
  /\ Fragments(<<")", "(", "|">>, "|") = << <<")", "(", "|">> >>
  /\ Fragments(<<")", "|", "x">>, "|") = << <<")">>, <<"x">> >>
  /\ Fragments(<<"'", "\"", "'", "|">>, "|") = << <<"'", "\"", "'">> >>
  /\ Fragments(<<"'", "(", "'", "|">>, "|") = << <<"'", "(", "'">> >>
  /\ Fragments(<<"|", "|", "x">>, "|") = << <<>>, <<>>, <<"x">> >>
  /\ {<<"(", "|", ")", "|">>, <<")", "(", "|">>, <<")", "|", "x">>, <<"'", "\"", "'", "|">>,
      <<"'", "(", "'", "|">>, <<"|", "|", "x">>} \subseteq SplitContents

(***************************************************************************)
(* Properties of the tokenizer (SpecBrace)                                 *)
(***************************************************************************)
\* s starts with {kw, one or more whitespace characters, one or more
\* characters of one line, and a closing brace
StartsKeyword(s, kw) ==
  /\ Len(s) >= Len(kw) + 4
  /\ s[1] = "{"
  /\ toLowerCase(SubSeq(s, 2, Len(kw) + 1)) = kw
  /\ \E w \in 1..Len(s), e \in 1..Len(s) :
       /\ \A k \in (Len(kw) + 2)..(Len(kw) + 1 + w) : s[k] \in Whitespace
       /\ e >= Len(kw) + w + 3
       /\ s[e] = "}"
       /\ \A k \in (Len(kw) + w + 2)..(e - 1) : s[k] \notin LineTerminators

\* s starts with the word in any case
StartsWord(s, word) ==
  Len(s) >= Len(word) /\ toLowerCase(SubSeq(s, 1, Len(word))) = word

\* s starts with a brace, an identifier with dots, optionally a bar and one or
\* more characters that are no closing brace, and a closing brace
StartsVariable(s) ==
  /\ Len(s) >= 3
  /\ s[1] = "{"
  /\ s[2] \in IdentStart
  /\ \E m \in 2..(Len(s) - 1) :
       /\ \A k \in 3..m : s[k] \in PathChars
       /\ \/ s[m + 1] = "}"
          \/ /\ s[m + 1] = "|"
             /\ \E e \in (m + 3)..Len(s) :
                  s[e] = "}" /\ \A k \in (m + 2)..(e - 1) : s[k] # "}"

\* a control token or a variable starts at the 0-based offset
RecognizedAt(tpl, offset) ==
  LET s == SubSeq(tpl, offset + 1, Len(tpl))
  IN \/ StartsKeyword(s, <<"i","f">>)
     \/ StartsKeyword(s, <<"e","l","i","f">>)
     \/ StartsWord(s, <<"{","e","l","s","e","}">>)
     \/ StartsWord(s, <<"{","/","i","f","}">>)
     \/ StartsVariable(s)

\* the scan loop is at an opening brace that starts no token
AtUnmatchedBrace ==
  /\ pc = "tokenize"
  /\ position < Len(template)
  /\ template[position + 1] = "{"
  /\ ~RecognizedAt(template, position)

\* the brace becomes a text token of its own and the scan moves on by one
EmitsBrace ==
  /\ tokens' = Append(tokens, TextToken(<<"{">>))
  /\ position' = position + 1

\* C21: an opening brace that starts no control token and no variable is
\* emitted as a one-character text token and the scan resumes at the next
\* character; a template none of whose braces starts a token renders as
\* itself (without its blank lines).
C21_BraceFallback ==
  /\ []((pc = "done" /\ pass = 1
         /\ \A offset \in 0..(Len(template) - 1) :
              template[offset + 1] = "{" => ~RecognizedAt(template, offset))
        => output = WithoutBlankLines(template))
  /\ [][AtUnmatchedBrace => EmitsBrace]_vars

\* {a|}{else } has rendered as itself: neither brace started a token
C21_Witness ==
  /\ pc = "done"
  /\ pass = 1
  /\ template = <<"{","a","|","}","{","e","l","s","e"," ","}">>
  /\ tokens[1] = TextToken(<<"{">>)
  /\ output = template

\* the templates hold braces that start each kind of token and braces that
\* start none
C21_Cases ==
  /\ {tpl \in BraceTemplates : RecognizedAt(tpl, 0)} # {}
  /\ \A word \in {<<"{","i","f","}">>, <<"{","e","l","i","f","}">>,
                  <<"{","I","f"," ","a","}">>, <<"{","i","f","\n","a","}">>,
                  <<"{","E","L","I","F"," ","b","}">>, <<"{","E","l","s","e","}">>,
                  <<"{","/","I","F","}">>, <<"{","a","|","u","}">>, <<"{","a",".","1","}">>} :
       RecognizedAt(word, 0)
  /\ \A word \in {<<"{","i","f"," ","a">>, <<"{"," ","i","f"," ","a","}">>,
                  <<"{","i","f"," ","a","\n","b","}">>,
                  <<"{","e","l","s","e"," ","}">>, <<"{","/","i","f"," ","}">>,
                  <<"{","/","i","f">>, <<"{","a","|","}">>, <<"{","1","}">>, <<"{","}">>} :
       ~RecognizedAt(word, 0)

\* one iteration of the scan loop has run
ScanIteration == pc = "tokenize" /\ pc' = "tokenize" /\ tokens' # tokens

\* the characters the iteration has consumed
ScanSpan == SubSeq(template, position + 1, position')

\* the iteration pushes one token whose source span starts where the previous
\* one ended, holds at least one character, ends within the template, and is
\* the text of the token when it is a text token
PushesItsSpan ==
  /\ position' > position
  /\ position' <= Len(template)
  /\ Len(tokens') = Len(tokens) + 1
  /\ SubSeq(tokens', 1, Len(tokens)) = tokens
  /\ LET token == tokens'[Len(tokens')]
     IN IF token.type = "text"
        THEN token.text = ScanSpan
        ELSE /\ ScanSpan[1] = "{"
             /\ ScanSpan[Len(ScanSpan)] = "}"
             /\ \A k \in 1..(Len(ScanSpan) - 1) : ScanSpan[k] # "}"

\* every token pushed so far covers at least one character of the offset
\* reached, so the iteration at an offset before the end can always run
SpansReach(toks, pos) == Len(toks) <= pos

\* C23: the scan loop terminates and partitions the template: every iteration
\* moves the offset forward by at least one character and never past the end,
\* pushes exactly one token for the characters it moved over (a text token
\* holds exactly those characters), and the loop ends with the offset at the
\* end of the template, after at most one iteration per character.
C23_Partition ==
  /\ [](/\ position \in 0..Len(template)
        /\ SpansReach(tokens, position)
        /\ (pc # "tokenize" => position = Len(template)))
  /\ [][ScanIteration => PushesItsSpan]_vars

\* {a|u}{ if a} is scanned into a variable, a lone brace and a text run
C23_Witness ==
  /\ pc = "parse"
  /\ template = <<"{","a","|","u","}","{"," ","i","f"," ","a","}">>
  /\ Len(tokens) = 3
  /\ tokens[1].type = "variable"
  /\ tokens[2] = TextToken(<<"{">>)
  /\ tokens[3] = TextToken(<<" ","i","f"," ","a","}">>)
  /\ position = 12

(***************************************************************************)
(* Properties of the parser (SpecParse)                                    *)
(***************************************************************************)
RECURSIVE OpenBranches(_)
\* the conditionals open after the tokens, outermost first, each with the
\* branch it is in: "if" (true branch), "elif" or "else"
OpenBranches(toks) ==
  IF toks = <<>> THEN <<>>
  ELSE LET open == OpenBranches(SubSeq(toks, 1, Len(toks) - 1))
           type == toks[Len(toks)].type
       IN IF type = "if" THEN Append(open, "if")
          ELSE IF open = <<>> THEN open
          ELSE IF type = "endif" THEN SubSeq(open, 1, Len(open) - 1)
          ELSE IF type \in {"elif", "else"} /\ open[Len(open)] # "else"
          THEN [open EXCEPT ![Len(open)] = type]
          ELSE open

\* the i-th token is a control token nothing expects: an elif, else or endif
\* with no conditional open, or an elif or else in the else-body of the
\* innermost open conditional
IsUnexpected(toks, i) ==
  LET open == OpenBranches(SubSeq(toks, 1, i - 1))
  IN \/ open = <<>> /\ toks[i].type \in {"elif", "else", "endif"}
     \/ open # <<>> /\ open[Len(open)] = "else" /\ toks[i].type \in {"elif", "else"}

\* C22: an unexpected elif, else or endif is skipped silently: the tree is the
\* tree of the same tokens without it, so what follows a stray elif or else
\* in an else-body stays in that else-branch, and stray control tokens at the
\* top level leave no trace.
C22_SkipsUnexpected ==
  pc \in {"render", "done"} =>
    \A i \in 1..Len(tokens) :
      IsUnexpected(tokens, i) => ast = parse(RemoveAt(tokens, i)).nodes

\* {if a}B{else}D{else}F{elif g}H{/if}J: D, F and H are the else-branch
C22_Witness ==
  /\ pc = "done"
  /\ pass = 1
  /\ Len(tokens) = 10
  /\ IsUnexpected(tokens, 5)
  /\ IsUnexpected(tokens, 7)
  /\ ast = <<IfNode(<<"a">>, <<TextNode(<<"B">>)>>, <<>>,
                    <<TextNode(<<"D">>), TextNode(<<"F">>), TextNode(<<"H">>)>>),
             TextNode(<<"J">>)>>

\* A{elif b}{else}{/if}{e}{if f}G: the three stray tokens leave no node
C22_TopLevel ==
  parse(tokenize(KindTemplate(<<"text", "elif", "else", "endif", "variable", "if", "text">>))).nodes
    = <<TextNode(<<"A">>), VariableNode(<<"e">>, <<>>),
        IfNode(<<"f">>, <<TextNode(<<"G">>)>>, <<>>, <<>>)>>

RECURSIVE Leaves(_)
\* the text and variable nodes of the tree in order: of a conditional, its
\* true branch, then its elif bodies, then its false branch
Leaves(nodes) ==
  IF nodes = <<>> THEN <<>>
  ELSE LET node == nodes[1]
       IN (IF node.type # "if" THEN <<node>>
           ELSE Leaves(node.trueBranch)
                \o Concat([k \in 1..Len(node.elifBranches) |->
                             Leaves(node.elifBranches[k].body)])
                \o Leaves(node.falseBranch))
          \o Leaves(Tail(nodes))

RECURSIVE Conditionals(_)
\* the conditions of the conditional nodes of the tree, in order of their if
Conditionals(nodes) ==
  IF nodes = <<>> THEN <<>>
  ELSE LET node == nodes[1]
       IN (IF node.type # "if" THEN <<>>
           ELSE <<node.condition>> \o Conditionals(node.trueBranch)
                \o Concat([k \in 1..Len(node.elifBranches) |->
                             Conditionals(node.elifBranches[k].body)])
                \o Conditionals(node.falseBranch))
          \o Conditionals(Tail(nodes))

\* the tokens of the given types, in order
TokensOf(toks, types) == SelectSeq(toks, LAMBDA token : token.type \in types)

\* C24: the parser consumes every token exactly once: no call of parseBlock
\* returns an index before the one it started at or past the end, parse
\* returns with the index at the number of tokens, every if token gives
\* exactly one conditional node, and the leaves of the tree in order are the
\* text and variable tokens in order.
C24_EveryTokenOnce ==
  pc \in {"render", "done"} =>
    /\ parse(tokens).index = Len(tokens)
    /\ \A index \in 0..Len(tokens), options \in {NoStops, BranchStops, ElseStops} :
         /\ parseBlock(tokens, index, options).index \in index..Len(tokens)
         /\ parseElifs(tokens, index, <<>>).index \in index..Len(tokens)
    /\ Conditionals(ast)
         = [k \in 1..Len(TokensOf(tokens, {"if"})) |-> TokensOf(tokens, {"if"})[k].condition]
    /\ Leaves(ast) = TokensOf(tokens, {"text", "variable"})

\* a template with stray control tokens, a nested conditional, an elif and an
\* unclosed conditional has been parsed
C24_Witness ==
  /\ pc = "done"
  /\ pass = 1
  /\ Len(tokens) = 15
  /\ Len(Conditionals(ast)) = 3
  /\ Len(Leaves(ast)) = 6
  /\ OpenAtEnd(tokens) > 0
  /\ \E i \in 1..Len(tokens) : IsUnexpected(tokens, i)

\* a conditional under construction: its node and the branch being filled
Frame(node, branch) == [node |-> node, branch |-> branch]

\* the node with one more child in the branch being filled
WithChild(frame, child) ==
  LET node == frame.node
  IN IF frame.branch = "if"
     THEN Frame([node EXCEPT !.trueBranch = Append(@, child)], frame.branch)
     ELSE IF frame.branch = "elif"
     THEN Frame([node EXCEPT !.elifBranches[Len(node.elifBranches)].body = Append(@, child)],
                frame.branch)
     ELSE Frame([node EXCEPT !.falseBranch = Append(@, child)], frame.branch)

\* the child goes to the innermost open conditional, or to the top level
Attach(state, child) ==
  IF state.open = <<>>
  THEN [state EXCEPT !.nodes = Append(@, child)]
  ELSE [state EXCEPT !.open[Len(state.open)] = WithChild(@, child)]

\* the innermost open conditional is closed and attached to what encloses it
CloseInnermost(state) ==
  Attach([state EXCEPT !.open = SubSeq(@, 1, Len(@) - 1)], state.open[Len(state.open)].node)

RECURSIVE CloseAll(_)
CloseAll(state) == IF state.open = <<>> THEN state ELSE CloseAll(CloseInnermost(state))

RECURSIVE Bind(_)
\* the tokens read one by one, every control token given to the innermost
\* open conditional
Bind(toks) ==
  IF toks = <<>> THEN [nodes |-> <<>>, open |-> <<>>]
  ELSE LET state == Bind(SubSeq(toks, 1, Len(toks) - 1))
           token == toks[Len(toks)]
           innermost == state.open[Len(state.open)]
       IN IF token.type = "text" THEN Attach(state, TextNode(token.text))
          ELSE IF token.type = "variable"
          THEN Attach(state, VariableNode(token.path, token.modifiers))
          ELSE IF token.type = "if"
          THEN [state EXCEPT !.open = Append(@, Frame(IfNode(token.condition, <<>>, <<>>, <<>>),
                                                      "if"))]
          ELSE IF state.open = <<>> THEN state
          ELSE IF token.type = "endif" THEN CloseInnermost(state)
          ELSE IF innermost.branch = "else" THEN state
          ELSE IF token.type = "elif"
          THEN [state EXCEPT !.open[Len(state.open)] =
                  Frame([innermost.node EXCEPT !.elifBranches =
                           Append(@, [condition |-> token.condition, body |-> <<>>])],
                        "elif")]
          ELSE [state EXCEPT !.open[Len(state.open)] = Frame(innermost.node, "else")]

\* C25: every elif, else and endif binds to the innermost conditional open at
\* that point: the tree is the one built by reading the tokens one by one
\* with a stack of open conditionals, each control token acting on the top of
\* the stack and conditionals still open at the end closed innermost first.
C25_InnermostBinding ==
  pc \in {"render", "done"} => ast = CloseAll(Bind(tokens)).nodes

\* {if a}{if b}X{/if}Y{/if}Z: X in the inner true branch, Y in the outer true
\* branch, Z at the top level
C25_Witness ==
  /\ pc = "done"
  /\ pass = 1
  /\ template = T_nested
  /\ ast = <<IfNode(<<"a">>,
                    <<IfNode(<<"b">>, <<TextNode(<<"X">>)>>, <<>>, <<>>), TextNode(<<"Y">>)>>,
                    <<>>, <<>>),
             TextNode(<<"Z">>)>>

(***************************************************************************)
(* Properties of the returned string (Spec)                                *)
(***************************************************************************)
\* the lines of a string; the empty string has none
LinesOf(text) == IF text = <<>> THEN <<>> ELSE SplitOn(text, "\n")

\* C26: the returned string has no empty or whitespace-only line: every line
\* holds a character that is no whitespace, the string neither starts nor
\* ends with a line break, and no two line breaks follow each other.
C26_NoBlankLine ==
  pc = "done" =>
    /\ \A k \in 1..Len(LinesOf(output)) : ~IsBlankLine(LinesOf(output)[k])
    /\ output # <<>> => output[1] # "\n" /\ output[Len(output)] # "\n"
    /\ \A k \in 1..(Len(output) - 1) : ~(output[k] = "\n" /\ output[k + 1] = "\n")

\* the joined chunks held a blank line between two lines that were kept
C26_Witness ==
  /\ pc = "done"
  /\ pass = 1
  /\ \E k \in 2..(Len(LinesOf(rawOutput(ast, context))) - 1) :
       IsBlankLine(LinesOf(rawOutput(ast, context))[k])
  /\ Len(LinesOf(output)) = 2

(***************************************************************************)
(* Properties of conditions on missing data (SpecResolve)                  *)
(***************************************************************************)
RECURSIVE OwnExists(_, _, _)
\* the segments from the i-th on lead somewhere in the data of the value:
\* through the keys a mapping holds and the indices and length of an array
OwnExists(parts, i, value) ==
  IF i > Len(parts) THEN TRUE
  ELSE IF value.t = "obj" /\ parts[i] \in DOMAIN value.o
  THEN OwnExists(parts, i + 1, value.o[parts[i]])
  ELSE IF value.t = "arr" /\ (IsArrayIndex(parts[i], Len(value.a))
                              \/ parts[i] = <<"l","e","n","g","t","h">>)
  THEN OwnExists(parts, i + 1, GetProperty(value, parts[i]))
  ELSE FALSE

\* the dotted paths that do not exist in the context
MissingPaths(ctx) == {path \in DottedPaths : ~OwnExists(SplitOn(path, "."), 1, ctx)}

\* C27: a condition that is one identifier which is no key of the context is
\* true, and a condition that is one dotted path which does not exist in the
\* context is false.
C27_MissingAsymmetry ==
  (pc = "done" /\ pass = 1) =>
    /\ \A name \in BareNames \ DOMAIN context.o :
         template = CondTemplate(name) => output = <<"T">>
    /\ \A path \in MissingPaths(context) :
         template = CondTemplate(path) => output = <<"F">>

\* the same for the paths none of whose segments names an inherited member
C27_OwnMissingAsymmetry ==
  (pc = "done" /\ pass = 1) =>
    /\ \A name \in BareNames \ DOMAIN context.o :
         template = CondTemplate(name) => output = <<"T">>
    /\ \A path \in {p \in MissingPaths(context) : NoInheritedSegment(p)} :
         template = CondTemplate(path) => output = <<"F">>

\* the identifiers and the paths of the two cases are there
C27_Cases ==
  /\ BareNames \cap DOMAIN ResolveContext.o = {}
  /\ DottedPaths \ MissingPaths(ResolveContext)
       = {<<"o",".","b">>, <<"k",".","0">>, <<"k",".","l","e","n","g","t","h">>}
  /\ {p \in DottedPaths : ~NoInheritedSegment(p)} \subseteq MissingPaths(ResolveContext)

(***************************************************************************)
(* Properties of the null operands (SpecCompare)                           *)
(***************************************************************************)
\* the operands that resolve to null under CompareContext: the key z holds
\* null, the path o.q does not exist
NullOperands == {K_z, <<"o",".","q">>}

\* the operands that denote a number
NumericOperands == {c \in CompareOperands : c.numeric}

\* C28: in >, <, >= and <= an operand that resolves to null counts as the
\* number 0, on either side: p > 0 is false, p >= 0, p <= 0 and p < 1 are
\* true, and against every number the outcome is that of 0.
C28_NullIsZero ==
  (pc = "done" /\ pass = 1) =>
    \A p \in NullOperands :
      /\ template = CondTemplate(Comparison(p, <<">">>, <<"0">>)) => output = <<"F">>
      /\ template = CondTemplate(Comparison(p, <<">","=">>, <<"0">>)) => output = <<"T">>
      /\ template = CondTemplate(Comparison(p, <<"<","=">>, <<"0">>)) => output = <<"T">>
      /\ template = CondTemplate(Comparison(p, <<"<">>, <<"1">>)) => output = <<"T">>
      /\ \A op \in NumericOperators, r \in NumericOperands :
           /\ template = CondTemplate(Comparison(p, op, r.text))
                => RenderedTrue = NumberHolds(op, 0, r.tenths)
           /\ template = CondTemplate(Comparison(r.text, op, p))
                => RenderedTrue = NumberHolds(op, r.tenths, 0)

\* `o.q >= 0` has rendered its true branch: the missing path counts as 0
C28_Witness ==
  /\ pc = "done"
  /\ pass = 1
  /\ template = CondTemplate(Comparison(<<"o",".","q">>, <<">","=">>, <<"0">>))
  /\ resolveValue(<<"o",".","q">>, context) = Null
  /\ output = <<"T">>

(***************************************************************************)
(* Properties of the negation (SpecNot)                                    *)
(***************************************************************************)
\* the number of `not` the prefix holds
NotCount(prefix) ==
  Cardinality({i \in 1..Len(prefix) : toLowerCase(SubSeq(prefix, i, i)) = <<"n">>})

\* the truth value negated once per `not`
Negated(prefix, truth) == IF NotCount(prefix) % 2 = 0 THEN truth ELSE ~truth

\* the boolean the context holds under the key
Holds(atom) == context.o[atom].b

\* C29: a leading `not` binds tighter than and / or and looser than a
\* comparison: `not x and y` is (NOT x) AND y, `not x or y` is (NOT x) OR y,
\* `not x = y` is NOT (x = y), and `not not x` is x; in general every operand
\* of and / or is negated once per `not` it starts with, and a comparison once
\* per `not` before it.
C29_NotBinding ==
  (pc = "done" /\ pass = 1) =>
    /\ \A p \in NotPrefixes, x \in NotAtoms :
         template = CondTemplate(p \o x) => RenderedTrue = Negated(p, Holds(x))
    /\ \A p \in NotPrefixes, q \in NotPrefixes, x \in NotAtoms, y \in NotAtoms :
         /\ template = CondTemplate(p \o x \o <<" ","a","n","d"," ">> \o q \o y)
              => RenderedTrue = (Negated(p, Holds(x)) /\ Negated(q, Holds(y)))
         /\ template = CondTemplate(p \o x \o <<" ","o","r"," ">> \o q \o y)
              => RenderedTrue = (Negated(p, Holds(x)) \/ Negated(q, Holds(y)))
    /\ \A p \in NotPrefixes, x \in NotAtoms, y \in NotAtoms :
         /\ template = CondTemplate(p \o Comparison(x, <<"=">>, y))
              => RenderedTrue = Negated(p, Holds(x) = Holds(y))
         /\ template = CondTemplate(p \o Comparison(x, <<"!","=">>, y))
              => RenderedTrue = Negated(p, Holds(x) # Holds(y))

\* `not a and b` has rendered its false branch with a and b both false: it is
\* (NOT a) AND b, where NOT (a AND b) would be true
C29_Witness ==
  /\ pc = "done"
  /\ pass = 1
  /\ template = CondTemplate(<<"n","o","t"," ","a"," ","a","n","d"," ","b">>)
  /\ ~Holds(K_a)
  /\ ~Holds(K_b)
  /\ output = <<"F">>

\* the four conditions of the claim are among the inputs
C29_Cases ==
  /\ {<<"n","o","t"," ","a"," ","a","n","d"," ","b">>, <<"n","o","t"," ","a"," ","o","r"," ","b">>,
      <<"n","o","t"," ","a"," ","="," ","b">>, <<"n","o","t"," ","n","o","t"," ","a">>}
       \subseteq NotConditions
  /\ \A p \in NotPrefixes : NotCount(p) \in 0..MaxNots
  /\ \E p \in NotPrefixes : NotCount(p) = MaxNots

(***************************************************************************)
(* Properties of the split inside quotes (SpecQuote)                       *)
(***************************************************************************)
RECURSIVE Separators(_, _, _)
\* the words from the i-th on that are the given word with whitespace of
\* their own on both sides: neither the first nor the last word, nor the word
\* right after a separator
Separators(ws, word, i) ==
  IF i >= Len(ws) THEN {}
  ELSE IF toLowerCase(ws[i]) = word THEN {i} \cup Separators(ws, word, i + 2)
  ELSE Separators(ws, word, i + 1)

\* the runs of words between the separators
Groups(ws, seps) ==
  {SubSeq(ws, span[1], span[2]) :
     span \in {sp \in (1..Len(ws)) \X (1..Len(ws)) :
                 /\ sp[1] <= sp[2]
                 /\ sp[1] - 1 \in seps \cup {0}
                 /\ sp[2] + 1 \in seps \cup {Len(ws) + 1}
                 /\ \A k \in sp[1]..sp[2] : k \notin seps}}

\* the text an operand spelled like this denotes: the inside of a text in
\* quotes, the text itself otherwise (it is no key, numeral or boolean)
Denoted(text) ==
  IF text[1] \in QuoteMarks /\ text[Len(text)] = text[1]
  THEN SubSeq(text, 2, Len(text) - 1)
  ELSE text

\* one part: a comparison of x when it starts with `x =`, an operand otherwise
PartHolds(ws, x) ==
  IF Len(ws) > 2 /\ ws[1] = K_x /\ ws[2] = <<"=">>
  THEN toLowerCase(x) = toLowerCase(Denoted(JoinWith(SubSeq(ws, 3, Len(ws)), <<" ">>)))
  ELSE trim(Denoted(JoinWith(ws, <<" ">>))) # <<>>

RECURSIVE WordsHold(_, _)
\* the condition made of the words, split at every separating `and`, then at
\* every separating `or`, whether or not the word lies between quotes
WordsHold(ws, x) ==
  IF Separators(ws, <<"a","n","d">>, 2) # {}
  THEN \A group \in Groups(ws, Separators(ws, <<"a","n","d">>, 2)) : WordsHold(group, x)
  ELSE IF Separators(ws, <<"o","r">>, 2) # {}
  THEN \E group \in Groups(ws, Separators(ws, <<"o","r">>, 2)) : WordsHold(group, x)
  ELSE PartHolds(ws, x)

\* every condition of SpecQuote as a template, with its words
QuotedCases ==
  {[template |-> CondTemplate(JoinWith(QuotedWords(mark, ws), <<" ">>)),
    words |-> QuotedWords(mark, ws)] :
     mark \in QuoteMarks, ws \in UNION {[1..k -> QuoteWords] : k \in 1..MaxWords}}

\* C30: the and / or split takes no notice of quotes: a condition that
\* compares x with a quoted text is split at every whitespace-delimited `and`
\* (failing that, `or`) of the quoted text, so x = "a and b" is the
\* conjunction of x = "a and b", not one comparison with the text a and b.
C30_SplitInsideQuotes ==
  (pc = "done" /\ pass = 1) =>
    \A case \in QuotedCases :
      template = case.template => RenderedTrue = WordsHold(case.words, context.o[K_x].s)

\* x = "a and b" has rendered its false branch although x is the text a and b
C30_Witness ==
  /\ pc = "done"
  /\ pass = 1
  /\ template = CondTemplate(<<"x"," ","="," ","\"","a"," ","a","n","d"," ","b","\"">>)
  /\ context.o[K_x].s = <<"a"," ","a","n","d"," ","b">>
  /\ output = <<"F">>

\* the split of the condition of the claim, and the conditions that are not split
C30_Cases ==
  /\ Groups(QuotedWords("\"", <<K_a, <<"a","n","d">>, K_b>>), {4})
       = { <<K_x, <<"=">>, <<"\"","a">>>>, <<<<"b","\"">>>> }
  /\ WordsHold(QuotedWords("\"", <<K_a, <<"a","n","d">>, K_b>>), <<"\"","a">>)
  /\ ~WordsHold(QuotedWords("\"", <<K_a, <<"a","n","d">>, K_b>>), <<"a"," ","a","n","d"," ","b">>)
  /\ WordsHold(QuotedWords("'", <<K_a, <<"o","r">>, K_b>>), <<"a">>)
  /\ Separators(QuotedWords("\"", <<<<"a","n","d">>, <<"a","n","d">>>>), <<"a","n","d">>, 2) = {}
  /\ WordsHold(QuotedWords("\"", <<<<"a","n","d">>>>), <<"a","n","d">>)

====
